---- MODULE Spec2Model ----
(***************************************************************************)
(* A model of generate_code.py: generate_java_code_from_plantuml reads a   *)
(* PlantUML class diagram and writes one Java file per declared type.      *)
(* A Python str is the sequence of its code points, so that every          *)
(* character of a diagram can be written; Str turns a literal of this      *)
(* module into such a sequence.  The regular expressions of the source are *)
(* operators that scan the text character by character, and each loop     *)
(* iteration of the four passes is one action.  Pass 4 stops with an       *)
(* exception when open() refuses the file name of a declaration or when    *)
(* f.write() cannot encode a method signature; pc then names the           *)
(* exception, and the files written so far stay as they are.  File names   *)
(* and file contents are encoded in UTF-8.                                 *)
(***************************************************************************)
EXTENDS Integers, Sequences, FiniteSets, TLC

VARIABLES text, pc, pos, idx, parsed_elements, relationships, files

vars == <<text, pc, pos, idx, parsed_elements, relationships, files>>

(***************************************************************************)
(* Bounds of the explored inputs.                                          *)
(***************************************************************************)
MaxMembers == 2
MaxDecls == 2
MaxRels == 2

(***************************************************************************)
(* Literals.                                                               *)
(***************************************************************************)
\* the printable ASCII characters in code order, U+0020..U+007E without U+0060
AsciiPrintable ==
  " !\"#$%&'()*+,-./0123456789:;<=>?@ABCDEFGHIJKLMNOPQRSTUVWXYZ[\\]^_abcdefghijklmnopqrstuvwxyz{|}~"

\* the code point of a character of a literal
Code ==
  [c \in {SubSeq(AsciiPrintable, k, k) : k \in 1..Len(AsciiPrintable)} \cup {"\n"} |->
     IF c = "\n" THEN 10
     ELSE LET k == CHOOSE k \in 1..Len(AsciiPrintable) : SubSeq(AsciiPrintable, k, k) = c
          IN IF k <= 64 THEN 31 + k ELSE 32 + k]

\* the Python str a literal of this module stands for
Str(lit) == SubSeq([k \in 1..Len(lit) |-> Code[SubSeq(lit, k, k)]], 1, Len(lit))

\* a tuple of literals as a list of Python strs
Strs(lits) == SubSeq([k \in 1..Len(lits) |-> Str(lits[k])], 1, Len(lits))

\* the literal parts of the four relationship and declaration patterns
KwAbstract == Str("abstract")
KwClass == Str("class")
KwInterface == Str("interface")
OpInheritance == Str("<|--")
OpImplementation == Str("..|>")
LBrace == Code["{"]
RBrace == Code["}"]
LParen == Code["("]
RParen == Code[")"]
Colon == Code[":"]
Comma == Code[","]
Newline == Code["\n"]

(***************************************************************************)
(* Character classes and case maps of Python 3.11 (Unicode 14), over all   *)
(* code points U+0000..U+10FFFF.  The patterns are str patterns compiled   *)
(* without re.ASCII, so \w and \s are the Unicode classes.                 *)
(***************************************************************************)
Ch(s, i) == s[i]

\* the code points of a table of ranges <<first, last>>
CodesIn(table) == UNION {table[k][1]..table[k][2] : k \in 1..Len(table)}

\* \w of the re module: str.isalnum() or "_"
WordRanges ==
  << <<48, 57>>, <<65, 90>>, <<95, 95>>, <<97, 122>>, <<170, 170>>, <<178, 179>>, <<181, 181>>,
   <<185, 186>>, <<188, 190>>, <<192, 214>>, <<216, 246>>, <<248, 705>>, <<710, 721>>,
   <<736, 740>>, <<748, 748>>, <<750, 750>>, <<880, 884>>, <<886, 887>>, <<890, 893>>,
   <<895, 895>>, <<902, 902>>, <<904, 906>>, <<908, 908>>, <<910, 929>>, <<931, 1013>>,
   <<1015, 1153>>, <<1162, 1327>>, <<1329, 1366>>, <<1369, 1369>>, <<1376, 1416>>,
   <<1488, 1514>>, <<1519, 1522>>, <<1568, 1610>>, <<1632, 1641>>, <<1646, 1647>>,
   <<1649, 1747>>, <<1749, 1749>>, <<1765, 1766>>, <<1774, 1788>>, <<1791, 1791>>,
   <<1808, 1808>>, <<1810, 1839>>, <<1869, 1957>>, <<1969, 1969>>, <<1984, 2026>>,
   <<2036, 2037>>, <<2042, 2042>>, <<2048, 2069>>, <<2074, 2074>>, <<2084, 2084>>,
   <<2088, 2088>>, <<2112, 2136>>, <<2144, 2154>>, <<2160, 2183>>, <<2185, 2190>>,
   <<2208, 2249>>, <<2308, 2361>>, <<2365, 2365>>, <<2384, 2384>>, <<2392, 2401>>,
   <<2406, 2415>>, <<2417, 2432>>, <<2437, 2444>>, <<2447, 2448>>, <<2451, 2472>>,
   <<2474, 2480>>, <<2482, 2482>>, <<2486, 2489>>, <<2493, 2493>>, <<2510, 2510>>,
   <<2524, 2525>>, <<2527, 2529>>, <<2534, 2545>>, <<2548, 2553>>, <<2556, 2556>>,
   <<2565, 2570>>, <<2575, 2576>>, <<2579, 2600>>, <<2602, 2608>>, <<2610, 2611>>,
   <<2613, 2614>>, <<2616, 2617>>, <<2649, 2652>>, <<2654, 2654>>, <<2662, 2671>>,
   <<2674, 2676>>, <<2693, 2701>>, <<2703, 2705>>, <<2707, 2728>>, <<2730, 2736>>,
   <<2738, 2739>>, <<2741, 2745>>, <<2749, 2749>>, <<2768, 2768>>, <<2784, 2785>>,
   <<2790, 2799>>, <<2809, 2809>>, <<2821, 2828>>, <<2831, 2832>>, <<2835, 2856>>,
   <<2858, 2864>>, <<2866, 2867>>, <<2869, 2873>>, <<2877, 2877>>, <<2908, 2909>>,
   <<2911, 2913>>, <<2918, 2927>>, <<2929, 2935>>, <<2947, 2947>>, <<2949, 2954>>,
   <<2958, 2960>>, <<2962, 2965>>, <<2969, 2970>>, <<2972, 2972>>, <<2974, 2975>>,
   <<2979, 2980>>, <<2984, 2986>>, <<2990, 3001>>, <<3024, 3024>>, <<3046, 3058>>,
   <<3077, 3084>>, <<3086, 3088>>, <<3090, 3112>>, <<3114, 3129>>, <<3133, 3133>>,
   <<3160, 3162>>, <<3165, 3165>>, <<3168, 3169>>, <<3174, 3183>>, <<3192, 3198>>,
   <<3200, 3200>>, <<3205, 3212>>, <<3214, 3216>>, <<3218, 3240>>, <<3242, 3251>>,
   <<3253, 3257>>, <<3261, 3261>>, <<3293, 3294>>, <<3296, 3297>>, <<3302, 3311>>,
   <<3313, 3314>>, <<3332, 3340>>, <<3342, 3344>>, <<3346, 3386>>, <<3389, 3389>>,
   <<3406, 3406>>, <<3412, 3414>>, <<3416, 3425>>, <<3430, 3448>>, <<3450, 3455>>,
   <<3461, 3478>>, <<3482, 3505>>, <<3507, 3515>>, <<3517, 3517>>, <<3520, 3526>>,
   <<3558, 3567>>, <<3585, 3632>>, <<3634, 3635>>, <<3648, 3654>>, <<3664, 3673>>,
   <<3713, 3714>>, <<3716, 3716>>, <<3718, 3722>>, <<3724, 3747>>, <<3749, 3749>>,
   <<3751, 3760>>, <<3762, 3763>>, <<3773, 3773>>, <<3776, 3780>>, <<3782, 3782>>,
   <<3792, 3801>>, <<3804, 3807>>, <<3840, 3840>>, <<3872, 3891>>, <<3904, 3911>>,
   <<3913, 3948>>, <<3976, 3980>>, <<4096, 4138>>, <<4159, 4169>>, <<4176, 4181>>,
   <<4186, 4189>>, <<4193, 4193>>, <<4197, 4198>>, <<4206, 4208>>, <<4213, 4225>>,
   <<4238, 4238>>, <<4240, 4249>>, <<4256, 4293>>, <<4295, 4295>>, <<4301, 4301>>,
   <<4304, 4346>>, <<4348, 4680>>, <<4682, 4685>>, <<4688, 4694>>, <<4696, 4696>>,
   <<4698, 4701>>, <<4704, 4744>>, <<4746, 4749>>, <<4752, 4784>>, <<4786, 4789>>,
   <<4792, 4798>>, <<4800, 4800>>, <<4802, 4805>>, <<4808, 4822>>, <<4824, 4880>>,
   <<4882, 4885>>, <<4888, 4954>>, <<4969, 4988>>, <<4992, 5007>>, <<5024, 5109>>,
   <<5112, 5117>>, <<5121, 5740>>, <<5743, 5759>>, <<5761, 5786>>, <<5792, 5866>>,
   <<5870, 5880>>, <<5888, 5905>>, <<5919, 5937>>, <<5952, 5969>>, <<5984, 5996>>,
   <<5998, 6000>>, <<6016, 6067>>, <<6103, 6103>>, <<6108, 6108>>, <<6112, 6121>>,
   <<6128, 6137>>, <<6160, 6169>>, <<6176, 6264>>, <<6272, 6276>>, <<6279, 6312>>,
   <<6314, 6314>>, <<6320, 6389>>, <<6400, 6430>>, <<6470, 6509>>, <<6512, 6516>>,
   <<6528, 6571>>, <<6576, 6601>>, <<6608, 6618>>, <<6656, 6678>>, <<6688, 6740>>,
   <<6784, 6793>>, <<6800, 6809>>, <<6823, 6823>>, <<6917, 6963>>, <<6981, 6988>>,
   <<6992, 7001>>, <<7043, 7072>>, <<7086, 7141>>, <<7168, 7203>>, <<7232, 7241>>,
   <<7245, 7293>>, <<7296, 7304>>, <<7312, 7354>>, <<7357, 7359>>, <<7401, 7404>>,
   <<7406, 7411>>, <<7413, 7414>>, <<7418, 7418>>, <<7424, 7615>>, <<7680, 7957>>,
   <<7960, 7965>>, <<7968, 8005>>, <<8008, 8013>>, <<8016, 8023>>, <<8025, 8025>>,
   <<8027, 8027>>, <<8029, 8029>>, <<8031, 8061>>, <<8064, 8116>>, <<8118, 8124>>,
   <<8126, 8126>>, <<8130, 8132>>, <<8134, 8140>>, <<8144, 8147>>, <<8150, 8155>>,
   <<8160, 8172>>, <<8178, 8180>>, <<8182, 8188>>, <<8304, 8305>>, <<8308, 8313>>,
   <<8319, 8329>>, <<8336, 8348>>, <<8450, 8450>>, <<8455, 8455>>, <<8458, 8467>>,
   <<8469, 8469>>, <<8473, 8477>>, <<8484, 8484>>, <<8486, 8486>>, <<8488, 8488>>,
   <<8490, 8493>>, <<8495, 8505>>, <<8508, 8511>>, <<8517, 8521>>, <<8526, 8526>>,
   <<8528, 8585>>, <<9312, 9371>>, <<9450, 9471>>, <<10102, 10131>>, <<11264, 11492>>,
   <<11499, 11502>>, <<11506, 11507>>, <<11517, 11517>>, <<11520, 11557>>, <<11559, 11559>>,
   <<11565, 11565>>, <<11568, 11623>>, <<11631, 11631>>, <<11648, 11670>>, <<11680, 11686>>,
   <<11688, 11694>>, <<11696, 11702>>, <<11704, 11710>>, <<11712, 11718>>, <<11720, 11726>>,
   <<11728, 11734>>, <<11736, 11742>>, <<11823, 11823>>, <<12293, 12295>>, <<12321, 12329>>,
   <<12337, 12341>>, <<12344, 12348>>, <<12353, 12438>>, <<12445, 12447>>, <<12449, 12538>>,
   <<12540, 12543>>, <<12549, 12591>>, <<12593, 12686>>, <<12690, 12693>>, <<12704, 12735>>,
   <<12784, 12799>>, <<12832, 12841>>, <<12872, 12879>>, <<12881, 12895>>, <<12928, 12937>>,
   <<12977, 12991>>, <<13312, 19903>>, <<19968, 42124>>, <<42192, 42237>>, <<42240, 42508>>,
   <<42512, 42539>>, <<42560, 42606>>, <<42623, 42653>>, <<42656, 42735>>, <<42775, 42783>>,
   <<42786, 42888>>, <<42891, 42954>>, <<42960, 42961>>, <<42963, 42963>>, <<42965, 42969>>,
   <<42994, 43009>>, <<43011, 43013>>, <<43015, 43018>>, <<43020, 43042>>, <<43056, 43061>>,
   <<43072, 43123>>, <<43138, 43187>>, <<43216, 43225>>, <<43250, 43255>>, <<43259, 43259>>,
   <<43261, 43262>>, <<43264, 43301>>, <<43312, 43334>>, <<43360, 43388>>, <<43396, 43442>>,
   <<43471, 43481>>, <<43488, 43492>>, <<43494, 43518>>, <<43520, 43560>>, <<43584, 43586>>,
   <<43588, 43595>>, <<43600, 43609>>, <<43616, 43638>>, <<43642, 43642>>, <<43646, 43695>>,
   <<43697, 43697>>, <<43701, 43702>>, <<43705, 43709>>, <<43712, 43712>>, <<43714, 43714>>,
   <<43739, 43741>>, <<43744, 43754>>, <<43762, 43764>>, <<43777, 43782>>, <<43785, 43790>>,
   <<43793, 43798>>, <<43808, 43814>>, <<43816, 43822>>, <<43824, 43866>>, <<43868, 43881>>,
   <<43888, 44002>>, <<44016, 44025>>, <<44032, 55203>>, <<55216, 55238>>, <<55243, 55291>>,
   <<63744, 64109>>, <<64112, 64217>>, <<64256, 64262>>, <<64275, 64279>>, <<64285, 64285>>,
   <<64287, 64296>>, <<64298, 64310>>, <<64312, 64316>>, <<64318, 64318>>, <<64320, 64321>>,
   <<64323, 64324>>, <<64326, 64433>>, <<64467, 64829>>, <<64848, 64911>>, <<64914, 64967>>,
   <<65008, 65019>>, <<65136, 65140>>, <<65142, 65276>>, <<65296, 65305>>, <<65313, 65338>>,
   <<65345, 65370>>, <<65382, 65470>>, <<65474, 65479>>, <<65482, 65487>>, <<65490, 65495>>,
   <<65498, 65500>>, <<65536, 65547>>, <<65549, 65574>>, <<65576, 65594>>, <<65596, 65597>>,
   <<65599, 65613>>, <<65616, 65629>>, <<65664, 65786>>, <<65799, 65843>>, <<65856, 65912>>,
   <<65930, 65931>>, <<66176, 66204>>, <<66208, 66256>>, <<66273, 66299>>, <<66304, 66339>>,
   <<66349, 66378>>, <<66384, 66421>>, <<66432, 66461>>, <<66464, 66499>>, <<66504, 66511>>,
   <<66513, 66517>>, <<66560, 66717>>, <<66720, 66729>>, <<66736, 66771>>, <<66776, 66811>>,
   <<66816, 66855>>, <<66864, 66915>>, <<66928, 66938>>, <<66940, 66954>>, <<66956, 66962>>,
   <<66964, 66965>>, <<66967, 66977>>, <<66979, 66993>>, <<66995, 67001>>, <<67003, 67004>>,
   <<67072, 67382>>, <<67392, 67413>>, <<67424, 67431>>, <<67456, 67461>>, <<67463, 67504>>,
   <<67506, 67514>>, <<67584, 67589>>, <<67592, 67592>>, <<67594, 67637>>, <<67639, 67640>>,
   <<67644, 67644>>, <<67647, 67669>>, <<67672, 67702>>, <<67705, 67742>>, <<67751, 67759>>,
   <<67808, 67826>>, <<67828, 67829>>, <<67835, 67867>>, <<67872, 67897>>, <<67968, 68023>>,
   <<68028, 68047>>, <<68050, 68096>>, <<68112, 68115>>, <<68117, 68119>>, <<68121, 68149>>,
   <<68160, 68168>>, <<68192, 68222>>, <<68224, 68255>>, <<68288, 68295>>, <<68297, 68324>>,
   <<68331, 68335>>, <<68352, 68405>>, <<68416, 68437>>, <<68440, 68466>>, <<68472, 68497>>,
   <<68521, 68527>>, <<68608, 68680>>, <<68736, 68786>>, <<68800, 68850>>, <<68858, 68899>>,
   <<68912, 68921>>, <<69216, 69246>>, <<69248, 69289>>, <<69296, 69297>>, <<69376, 69415>>,
   <<69424, 69445>>, <<69457, 69460>>, <<69488, 69505>>, <<69552, 69579>>, <<69600, 69622>>,
   <<69635, 69687>>, <<69714, 69743>>, <<69745, 69746>>, <<69749, 69749>>, <<69763, 69807>>,
   <<69840, 69864>>, <<69872, 69881>>, <<69891, 69926>>, <<69942, 69951>>, <<69956, 69956>>,
   <<69959, 69959>>, <<69968, 70002>>, <<70006, 70006>>, <<70019, 70066>>, <<70081, 70084>>,
   <<70096, 70106>>, <<70108, 70108>>, <<70113, 70132>>, <<70144, 70161>>, <<70163, 70187>>,
   <<70272, 70278>>, <<70280, 70280>>, <<70282, 70285>>, <<70287, 70301>>, <<70303, 70312>>,
   <<70320, 70366>>, <<70384, 70393>>, <<70405, 70412>>, <<70415, 70416>>, <<70419, 70440>>,
   <<70442, 70448>>, <<70450, 70451>>, <<70453, 70457>>, <<70461, 70461>>, <<70480, 70480>>,
   <<70493, 70497>>, <<70656, 70708>>, <<70727, 70730>>, <<70736, 70745>>, <<70751, 70753>>,
   <<70784, 70831>>, <<70852, 70853>>, <<70855, 70855>>, <<70864, 70873>>, <<71040, 71086>>,
   <<71128, 71131>>, <<71168, 71215>>, <<71236, 71236>>, <<71248, 71257>>, <<71296, 71338>>,
   <<71352, 71352>>, <<71360, 71369>>, <<71424, 71450>>, <<71472, 71483>>, <<71488, 71494>>,
   <<71680, 71723>>, <<71840, 71922>>, <<71935, 71942>>, <<71945, 71945>>, <<71948, 71955>>,
   <<71957, 71958>>, <<71960, 71983>>, <<71999, 71999>>, <<72001, 72001>>, <<72016, 72025>>,
   <<72096, 72103>>, <<72106, 72144>>, <<72161, 72161>>, <<72163, 72163>>, <<72192, 72192>>,
   <<72203, 72242>>, <<72250, 72250>>, <<72272, 72272>>, <<72284, 72329>>, <<72349, 72349>>,
   <<72368, 72440>>, <<72704, 72712>>, <<72714, 72750>>, <<72768, 72768>>, <<72784, 72812>>,
   <<72818, 72847>>, <<72960, 72966>>, <<72968, 72969>>, <<72971, 73008>>, <<73030, 73030>>,
   <<73040, 73049>>, <<73056, 73061>>, <<73063, 73064>>, <<73066, 73097>>, <<73112, 73112>>,
   <<73120, 73129>>, <<73440, 73458>>, <<73648, 73648>>, <<73664, 73684>>, <<73728, 74649>>,
   <<74752, 74862>>, <<74880, 75075>>, <<77712, 77808>>, <<77824, 78894>>, <<82944, 83526>>,
   <<92160, 92728>>, <<92736, 92766>>, <<92768, 92777>>, <<92784, 92862>>, <<92864, 92873>>,
   <<92880, 92909>>, <<92928, 92975>>, <<92992, 92995>>, <<93008, 93017>>, <<93019, 93025>>,
   <<93027, 93047>>, <<93053, 93071>>, <<93760, 93846>>, <<93952, 94026>>, <<94032, 94032>>,
   <<94099, 94111>>, <<94176, 94177>>, <<94179, 94179>>, <<94208, 100343>>, <<100352, 101589>>,
   <<101632, 101640>>, <<110576, 110579>>, <<110581, 110587>>, <<110589, 110590>>,
   <<110592, 110882>>, <<110928, 110930>>, <<110948, 110951>>, <<110960, 111355>>,
   <<113664, 113770>>, <<113776, 113788>>, <<113792, 113800>>, <<113808, 113817>>,
   <<119520, 119539>>, <<119648, 119672>>, <<119808, 119892>>, <<119894, 119964>>,
   <<119966, 119967>>, <<119970, 119970>>, <<119973, 119974>>, <<119977, 119980>>,
   <<119982, 119993>>, <<119995, 119995>>, <<119997, 120003>>, <<120005, 120069>>,
   <<120071, 120074>>, <<120077, 120084>>, <<120086, 120092>>, <<120094, 120121>>,
   <<120123, 120126>>, <<120128, 120132>>, <<120134, 120134>>, <<120138, 120144>>,
   <<120146, 120485>>, <<120488, 120512>>, <<120514, 120538>>, <<120540, 120570>>,
   <<120572, 120596>>, <<120598, 120628>>, <<120630, 120654>>, <<120656, 120686>>,
   <<120688, 120712>>, <<120714, 120744>>, <<120746, 120770>>, <<120772, 120779>>,
   <<120782, 120831>>, <<122624, 122654>>, <<123136, 123180>>, <<123191, 123197>>,
   <<123200, 123209>>, <<123214, 123214>>, <<123536, 123565>>, <<123584, 123627>>,
   <<123632, 123641>>, <<124896, 124902>>, <<124904, 124907>>, <<124909, 124910>>,
   <<124912, 124926>>, <<124928, 125124>>, <<125127, 125135>>, <<125184, 125251>>,
   <<125259, 125259>>, <<125264, 125273>>, <<126065, 126123>>, <<126125, 126127>>,
   <<126129, 126132>>, <<126209, 126253>>, <<126255, 126269>>, <<126464, 126467>>,
   <<126469, 126495>>, <<126497, 126498>>, <<126500, 126500>>, <<126503, 126503>>,
   <<126505, 126514>>, <<126516, 126519>>, <<126521, 126521>>, <<126523, 126523>>,
   <<126530, 126530>>, <<126535, 126535>>, <<126537, 126537>>, <<126539, 126539>>,
   <<126541, 126543>>, <<126545, 126546>>, <<126548, 126548>>, <<126551, 126551>>,
   <<126553, 126553>>, <<126555, 126555>>, <<126557, 126557>>, <<126559, 126559>>,
   <<126561, 126562>>, <<126564, 126564>>, <<126567, 126570>>, <<126572, 126578>>,
   <<126580, 126583>>, <<126585, 126588>>, <<126590, 126590>>, <<126592, 126601>>,
   <<126603, 126619>>, <<126625, 126627>>, <<126629, 126633>>, <<126635, 126651>>,
   <<127232, 127244>>, <<130032, 130041>>, <<131072, 173791>>, <<173824, 177976>>,
   <<177984, 178205>>, <<178208, 183969>>, <<183984, 191456>>, <<194560, 195101>>,
   <<196608, 201546>> >>

WordChars == CodesIn(WordRanges)

\* \s of the re module, and the characters str.strip() removes: str.isspace()
SpaceChars ==
  {9, 10, 11, 12, 13, 28, 29, 30, 31, 32, 133, 160, 5760, 8192, 8193, 8194, 8195, 8196, 8197,
   8198, 8199, 8200, 8201, 8202, 8232, 8233, 8239, 8287, 12288}

\* the character class [+\-#~] of member_pattern
VisibilityChars == {Code["+"], Code["-"], Code["#"], Code["~"]}

\* the characters that have a case and are not case-ignorable, and the
\* case-ignorable ones: str.lower() reads them around a capital sigma
CasedRanges ==
  << <<65, 90>>, <<97, 122>>, <<170, 170>>, <<181, 181>>, <<186, 186>>, <<192, 214>>,
   <<216, 246>>, <<248, 442>>, <<444, 447>>, <<452, 659>>, <<661, 687>>, <<880, 883>>,
   <<886, 887>>, <<891, 893>>, <<895, 895>>, <<902, 902>>, <<904, 906>>, <<908, 908>>,
   <<910, 929>>, <<931, 1013>>, <<1015, 1153>>, <<1162, 1327>>, <<1329, 1366>>, <<1376, 1416>>,
   <<4256, 4293>>, <<4295, 4295>>, <<4301, 4301>>, <<4304, 4346>>, <<4349, 4351>>,
   <<5024, 5109>>, <<5112, 5117>>, <<7296, 7304>>, <<7312, 7354>>, <<7357, 7359>>,
   <<7424, 7467>>, <<7531, 7543>>, <<7545, 7578>>, <<7680, 7957>>, <<7960, 7965>>,
   <<7968, 8005>>, <<8008, 8013>>, <<8016, 8023>>, <<8025, 8025>>, <<8027, 8027>>,
   <<8029, 8029>>, <<8031, 8061>>, <<8064, 8116>>, <<8118, 8124>>, <<8126, 8126>>,
   <<8130, 8132>>, <<8134, 8140>>, <<8144, 8147>>, <<8150, 8155>>, <<8160, 8172>>,
   <<8178, 8180>>, <<8182, 8188>>, <<8450, 8450>>, <<8455, 8455>>, <<8458, 8467>>,
   <<8469, 8469>>, <<8473, 8477>>, <<8484, 8484>>, <<8486, 8486>>, <<8488, 8488>>,
   <<8490, 8493>>, <<8495, 8500>>, <<8505, 8505>>, <<8508, 8511>>, <<8517, 8521>>,
   <<8526, 8526>>, <<8544, 8575>>, <<8579, 8580>>, <<9398, 9449>>, <<11264, 11387>>,
   <<11390, 11492>>, <<11499, 11502>>, <<11506, 11507>>, <<11520, 11557>>, <<11559, 11559>>,
   <<11565, 11565>>, <<42560, 42605>>, <<42624, 42651>>, <<42786, 42863>>, <<42865, 42887>>,
   <<42891, 42894>>, <<42896, 42954>>, <<42960, 42961>>, <<42963, 42963>>, <<42965, 42969>>,
   <<42997, 42998>>, <<43002, 43002>>, <<43824, 43866>>, <<43872, 43880>>, <<43888, 43967>>,
   <<64256, 64262>>, <<64275, 64279>>, <<65313, 65338>>, <<65345, 65370>>, <<66560, 66639>>,
   <<66736, 66771>>, <<66776, 66811>>, <<66928, 66938>>, <<66940, 66954>>, <<66956, 66962>>,
   <<66964, 66965>>, <<66967, 66977>>, <<66979, 66993>>, <<66995, 67001>>, <<67003, 67004>>,
   <<68736, 68786>>, <<68800, 68850>>, <<71840, 71903>>, <<93760, 93823>>, <<119808, 119892>>,
   <<119894, 119964>>, <<119966, 119967>>, <<119970, 119970>>, <<119973, 119974>>,
   <<119977, 119980>>, <<119982, 119993>>, <<119995, 119995>>, <<119997, 120003>>,
   <<120005, 120069>>, <<120071, 120074>>, <<120077, 120084>>, <<120086, 120092>>,
   <<120094, 120121>>, <<120123, 120126>>, <<120128, 120132>>, <<120134, 120134>>,
   <<120138, 120144>>, <<120146, 120485>>, <<120488, 120512>>, <<120514, 120538>>,
   <<120540, 120570>>, <<120572, 120596>>, <<120598, 120628>>, <<120630, 120654>>,
   <<120656, 120686>>, <<120688, 120712>>, <<120714, 120744>>, <<120746, 120770>>,
   <<120772, 120779>>, <<122624, 122633>>, <<122635, 122654>>, <<125184, 125251>>,
   <<127280, 127305>>, <<127312, 127337>>, <<127344, 127369>> >>

CaseIgnorableRanges ==
  << <<39, 39>>, <<46, 46>>, <<58, 58>>, <<94, 94>>, <<96, 96>>, <<168, 168>>, <<173, 173>>,
   <<175, 175>>, <<180, 180>>, <<183, 184>>, <<688, 879>>, <<884, 885>>, <<890, 890>>,
   <<900, 901>>, <<903, 903>>, <<1155, 1161>>, <<1369, 1369>>, <<1375, 1375>>, <<1425, 1469>>,
   <<1471, 1471>>, <<1473, 1474>>, <<1476, 1477>>, <<1479, 1479>>, <<1524, 1524>>,
   <<1536, 1541>>, <<1552, 1562>>, <<1564, 1564>>, <<1600, 1600>>, <<1611, 1631>>,
   <<1648, 1648>>, <<1750, 1757>>, <<1759, 1768>>, <<1770, 1773>>, <<1807, 1807>>,
   <<1809, 1809>>, <<1840, 1866>>, <<1958, 1968>>, <<2027, 2037>>, <<2042, 2042>>,
   <<2045, 2045>>, <<2070, 2093>>, <<2137, 2139>>, <<2184, 2184>>, <<2192, 2193>>,
   <<2200, 2207>>, <<2249, 2306>>, <<2362, 2362>>, <<2364, 2364>>, <<2369, 2376>>,
   <<2381, 2381>>, <<2385, 2391>>, <<2402, 2403>>, <<2417, 2417>>, <<2433, 2433>>,
   <<2492, 2492>>, <<2497, 2500>>, <<2509, 2509>>, <<2530, 2531>>, <<2558, 2558>>,
   <<2561, 2562>>, <<2620, 2620>>, <<2625, 2626>>, <<2631, 2632>>, <<2635, 2637>>,
   <<2641, 2641>>, <<2672, 2673>>, <<2677, 2677>>, <<2689, 2690>>, <<2748, 2748>>,
   <<2753, 2757>>, <<2759, 2760>>, <<2765, 2765>>, <<2786, 2787>>, <<2810, 2815>>,
   <<2817, 2817>>, <<2876, 2876>>, <<2879, 2879>>, <<2881, 2884>>, <<2893, 2893>>,
   <<2901, 2902>>, <<2914, 2915>>, <<2946, 2946>>, <<3008, 3008>>, <<3021, 3021>>,
   <<3072, 3072>>, <<3076, 3076>>, <<3132, 3132>>, <<3134, 3136>>, <<3142, 3144>>,
   <<3146, 3149>>, <<3157, 3158>>, <<3170, 3171>>, <<3201, 3201>>, <<3260, 3260>>,
   <<3263, 3263>>, <<3270, 3270>>, <<3276, 3277>>, <<3298, 3299>>, <<3328, 3329>>,
   <<3387, 3388>>, <<3393, 3396>>, <<3405, 3405>>, <<3426, 3427>>, <<3457, 3457>>,
   <<3530, 3530>>, <<3538, 3540>>, <<3542, 3542>>, <<3633, 3633>>, <<3636, 3642>>,
   <<3654, 3662>>, <<3761, 3761>>, <<3764, 3772>>, <<3782, 3782>>, <<3784, 3789>>,
   <<3864, 3865>>, <<3893, 3893>>, <<3895, 3895>>, <<3897, 3897>>, <<3953, 3966>>,
   <<3968, 3972>>, <<3974, 3975>>, <<3981, 3991>>, <<3993, 4028>>, <<4038, 4038>>,
   <<4141, 4144>>, <<4146, 4151>>, <<4153, 4154>>, <<4157, 4158>>, <<4184, 4185>>,
   <<4190, 4192>>, <<4209, 4212>>, <<4226, 4226>>, <<4229, 4230>>, <<4237, 4237>>,
   <<4253, 4253>>, <<4348, 4348>>, <<4957, 4959>>, <<5906, 5908>>, <<5938, 5939>>,
   <<5970, 5971>>, <<6002, 6003>>, <<6068, 6069>>, <<6071, 6077>>, <<6086, 6086>>,
   <<6089, 6099>>, <<6103, 6103>>, <<6109, 6109>>, <<6155, 6159>>, <<6211, 6211>>,
   <<6277, 6278>>, <<6313, 6313>>, <<6432, 6434>>, <<6439, 6440>>, <<6450, 6450>>,
   <<6457, 6459>>, <<6679, 6680>>, <<6683, 6683>>, <<6742, 6742>>, <<6744, 6750>>,
   <<6752, 6752>>, <<6754, 6754>>, <<6757, 6764>>, <<6771, 6780>>, <<6783, 6783>>,
   <<6823, 6823>>, <<6832, 6862>>, <<6912, 6915>>, <<6964, 6964>>, <<6966, 6970>>,
   <<6972, 6972>>, <<6978, 6978>>, <<7019, 7027>>, <<7040, 7041>>, <<7074, 7077>>,
   <<7080, 7081>>, <<7083, 7085>>, <<7142, 7142>>, <<7144, 7145>>, <<7149, 7149>>,
   <<7151, 7153>>, <<7212, 7219>>, <<7222, 7223>>, <<7288, 7293>>, <<7376, 7378>>,
   <<7380, 7392>>, <<7394, 7400>>, <<7405, 7405>>, <<7412, 7412>>, <<7416, 7417>>,
   <<7468, 7530>>, <<7544, 7544>>, <<7579, 7679>>, <<8125, 8125>>, <<8127, 8129>>,
   <<8141, 8143>>, <<8157, 8159>>, <<8173, 8175>>, <<8189, 8190>>, <<8203, 8207>>,
   <<8216, 8217>>, <<8228, 8228>>, <<8231, 8231>>, <<8234, 8238>>, <<8288, 8292>>,
   <<8294, 8303>>, <<8305, 8305>>, <<8319, 8319>>, <<8336, 8348>>, <<8400, 8432>>,
   <<11388, 11389>>, <<11503, 11505>>, <<11631, 11631>>, <<11647, 11647>>, <<11744, 11775>>,
   <<11823, 11823>>, <<12293, 12293>>, <<12330, 12333>>, <<12337, 12341>>, <<12347, 12347>>,
   <<12441, 12446>>, <<12540, 12542>>, <<40981, 40981>>, <<42232, 42237>>, <<42508, 42508>>,
   <<42607, 42610>>, <<42612, 42621>>, <<42623, 42623>>, <<42652, 42655>>, <<42736, 42737>>,
   <<42752, 42785>>, <<42864, 42864>>, <<42888, 42890>>, <<42994, 42996>>, <<43000, 43001>>,
   <<43010, 43010>>, <<43014, 43014>>, <<43019, 43019>>, <<43045, 43046>>, <<43052, 43052>>,
   <<43204, 43205>>, <<43232, 43249>>, <<43263, 43263>>, <<43302, 43309>>, <<43335, 43345>>,
   <<43392, 43394>>, <<43443, 43443>>, <<43446, 43449>>, <<43452, 43453>>, <<43471, 43471>>,
   <<43493, 43494>>, <<43561, 43566>>, <<43569, 43570>>, <<43573, 43574>>, <<43587, 43587>>,
   <<43596, 43596>>, <<43632, 43632>>, <<43644, 43644>>, <<43696, 43696>>, <<43698, 43700>>,
   <<43703, 43704>>, <<43710, 43711>>, <<43713, 43713>>, <<43741, 43741>>, <<43756, 43757>>,
   <<43763, 43764>>, <<43766, 43766>>, <<43867, 43871>>, <<43881, 43883>>, <<44005, 44005>>,
   <<44008, 44008>>, <<44013, 44013>>, <<64286, 64286>>, <<64434, 64450>>, <<65024, 65039>>,
   <<65043, 65043>>, <<65056, 65071>>, <<65106, 65106>>, <<65109, 65109>>, <<65279, 65279>>,
   <<65287, 65287>>, <<65294, 65294>>, <<65306, 65306>>, <<65342, 65342>>, <<65344, 65344>>,
   <<65392, 65392>>, <<65438, 65439>>, <<65507, 65507>>, <<65529, 65531>>, <<66045, 66045>>,
   <<66272, 66272>>, <<66422, 66426>>, <<67456, 67461>>, <<67463, 67504>>, <<67506, 67514>>,
   <<68097, 68099>>, <<68101, 68102>>, <<68108, 68111>>, <<68152, 68154>>, <<68159, 68159>>,
   <<68325, 68326>>, <<68900, 68903>>, <<69291, 69292>>, <<69446, 69456>>, <<69506, 69509>>,
   <<69633, 69633>>, <<69688, 69702>>, <<69744, 69744>>, <<69747, 69748>>, <<69759, 69761>>,
   <<69811, 69814>>, <<69817, 69818>>, <<69821, 69821>>, <<69826, 69826>>, <<69837, 69837>>,
   <<69888, 69890>>, <<69927, 69931>>, <<69933, 69940>>, <<70003, 70003>>, <<70016, 70017>>,
   <<70070, 70078>>, <<70089, 70092>>, <<70095, 70095>>, <<70191, 70193>>, <<70196, 70196>>,
   <<70198, 70199>>, <<70206, 70206>>, <<70367, 70367>>, <<70371, 70378>>, <<70400, 70401>>,
   <<70459, 70460>>, <<70464, 70464>>, <<70502, 70508>>, <<70512, 70516>>, <<70712, 70719>>,
   <<70722, 70724>>, <<70726, 70726>>, <<70750, 70750>>, <<70835, 70840>>, <<70842, 70842>>,
   <<70847, 70848>>, <<70850, 70851>>, <<71090, 71093>>, <<71100, 71101>>, <<71103, 71104>>,
   <<71132, 71133>>, <<71219, 71226>>, <<71229, 71229>>, <<71231, 71232>>, <<71339, 71339>>,
   <<71341, 71341>>, <<71344, 71349>>, <<71351, 71351>>, <<71453, 71455>>, <<71458, 71461>>,
   <<71463, 71467>>, <<71727, 71735>>, <<71737, 71738>>, <<71995, 71996>>, <<71998, 71998>>,
   <<72003, 72003>>, <<72148, 72151>>, <<72154, 72155>>, <<72160, 72160>>, <<72193, 72202>>,
   <<72243, 72248>>, <<72251, 72254>>, <<72263, 72263>>, <<72273, 72278>>, <<72281, 72283>>,
   <<72330, 72342>>, <<72344, 72345>>, <<72752, 72758>>, <<72760, 72765>>, <<72767, 72767>>,
   <<72850, 72871>>, <<72874, 72880>>, <<72882, 72883>>, <<72885, 72886>>, <<73009, 73014>>,
   <<73018, 73018>>, <<73020, 73021>>, <<73023, 73029>>, <<73031, 73031>>, <<73104, 73105>>,
   <<73109, 73109>>, <<73111, 73111>>, <<73459, 73460>>, <<78896, 78904>>, <<92912, 92916>>,
   <<92976, 92982>>, <<92992, 92995>>, <<94031, 94031>>, <<94095, 94111>>, <<94176, 94177>>,
   <<94179, 94180>>, <<110576, 110579>>, <<110581, 110587>>, <<110589, 110590>>,
   <<113821, 113822>>, <<113824, 113827>>, <<118528, 118573>>, <<118576, 118598>>,
   <<119143, 119145>>, <<119155, 119170>>, <<119173, 119179>>, <<119210, 119213>>,
   <<119362, 119364>>, <<121344, 121398>>, <<121403, 121452>>, <<121461, 121461>>,
   <<121476, 121476>>, <<121499, 121503>>, <<121505, 121519>>, <<122880, 122886>>,
   <<122888, 122904>>, <<122907, 122913>>, <<122915, 122916>>, <<122918, 122922>>,
   <<123184, 123197>>, <<123566, 123566>>, <<123628, 123631>>, <<125136, 125142>>,
   <<125252, 125259>>, <<127995, 127999>>, <<917505, 917505>>, <<917536, 917631>>,
   <<917760, 917999>> >>

Cased == CodesIn(CasedRanges)

CaseIgnorable == CodesIn(CaseIgnorableRanges)

\* case maps as runs <<first, last, step, delta>>: every step-th code point c of
\* first..last maps to c + delta; and the code points that map to several
\* characters, <<c, mapped>>
TitleRuns ==
  << <<97, 122, 1, -32>>, <<181, 181, 1, 743>>, <<224, 246, 1, -32>>, <<248, 254, 1, -32>>,
   <<255, 255, 1, 121>>, <<257, 303, 2, -1>>, <<305, 305, 1, -232>>, <<307, 311, 2, -1>>,
   <<314, 328, 2, -1>>, <<331, 375, 2, -1>>, <<378, 382, 2, -1>>, <<383, 383, 1, -300>>,
   <<384, 384, 1, 195>>, <<387, 389, 2, -1>>, <<392, 392, 1, -1>>, <<396, 396, 1, -1>>,
   <<402, 402, 1, -1>>, <<405, 405, 1, 97>>, <<409, 409, 1, -1>>, <<410, 410, 1, 163>>,
   <<414, 414, 1, 130>>, <<417, 421, 2, -1>>, <<424, 424, 1, -1>>, <<429, 429, 1, -1>>,
   <<432, 432, 1, -1>>, <<436, 438, 2, -1>>, <<441, 441, 1, -1>>, <<445, 445, 1, -1>>,
   <<447, 447, 1, 56>>, <<452, 452, 1, 1>>, <<454, 454, 1, -1>>, <<455, 455, 1, 1>>,
   <<457, 457, 1, -1>>, <<458, 458, 1, 1>>, <<460, 476, 2, -1>>, <<477, 477, 1, -79>>,
   <<479, 495, 2, -1>>, <<497, 497, 1, 1>>, <<499, 501, 2, -1>>, <<505, 543, 2, -1>>,
   <<547, 563, 2, -1>>, <<572, 572, 1, -1>>, <<575, 576, 1, 10815>>, <<578, 578, 1, -1>>,
   <<583, 591, 2, -1>>, <<592, 592, 1, 10783>>, <<593, 593, 1, 10780>>, <<594, 594, 1, 10782>>,
   <<595, 595, 1, -210>>, <<596, 596, 1, -206>>, <<598, 599, 1, -205>>, <<601, 601, 1, -202>>,
   <<603, 603, 1, -203>>, <<604, 604, 1, 42319>>, <<608, 608, 1, -205>>,
   <<609, 609, 1, 42315>>, <<611, 611, 1, -207>>, <<613, 613, 1, 42280>>,
   <<614, 614, 1, 42308>>, <<616, 616, 1, -209>>, <<617, 617, 1, -211>>,
   <<618, 618, 1, 42308>>, <<619, 619, 1, 10743>>, <<620, 620, 1, 42305>>,
   <<623, 623, 1, -211>>, <<625, 625, 1, 10749>>, <<626, 626, 1, -213>>, <<629, 629, 1, -214>>,
   <<637, 637, 1, 10727>>, <<640, 640, 1, -218>>, <<642, 642, 1, 42307>>,
   <<643, 643, 1, -218>>, <<647, 647, 1, 42282>>, <<648, 648, 1, -218>>, <<649, 649, 1, -69>>,
   <<650, 651, 1, -217>>, <<652, 652, 1, -71>>, <<658, 658, 1, -219>>, <<669, 669, 1, 42261>>,
   <<670, 670, 1, 42258>>, <<837, 837, 1, 84>>, <<881, 883, 2, -1>>, <<887, 887, 1, -1>>,
   <<891, 893, 1, 130>>, <<940, 940, 1, -38>>, <<941, 943, 1, -37>>, <<945, 961, 1, -32>>,
   <<962, 962, 1, -31>>, <<963, 971, 1, -32>>, <<972, 972, 1, -64>>, <<973, 974, 1, -63>>,
   <<976, 976, 1, -62>>, <<977, 977, 1, -57>>, <<981, 981, 1, -47>>, <<982, 982, 1, -54>>,
   <<983, 983, 1, -8>>, <<985, 1007, 2, -1>>, <<1008, 1008, 1, -86>>, <<1009, 1009, 1, -80>>,
   <<1010, 1010, 1, 7>>, <<1011, 1011, 1, -116>>, <<1013, 1013, 1, -96>>,
   <<1016, 1016, 1, -1>>, <<1019, 1019, 1, -1>>, <<1072, 1103, 1, -32>>,
   <<1104, 1119, 1, -80>>, <<1121, 1153, 2, -1>>, <<1163, 1215, 2, -1>>, <<1218, 1230, 2, -1>>,
   <<1231, 1231, 1, -15>>, <<1233, 1327, 2, -1>>, <<1377, 1414, 1, -48>>,
   <<5112, 5117, 1, -8>>, <<7296, 7296, 1, -6254>>, <<7297, 7297, 1, -6253>>,
   <<7298, 7298, 1, -6244>>, <<7299, 7300, 1, -6242>>, <<7301, 7301, 1, -6243>>,
   <<7302, 7302, 1, -6236>>, <<7303, 7303, 1, -6181>>, <<7304, 7304, 1, 35266>>,
   <<7545, 7545, 1, 35332>>, <<7549, 7549, 1, 3814>>, <<7566, 7566, 1, 35384>>,
   <<7681, 7829, 2, -1>>, <<7835, 7835, 1, -59>>, <<7841, 7935, 2, -1>>, <<7936, 7943, 1, 8>>,
   <<7952, 7957, 1, 8>>, <<7968, 7975, 1, 8>>, <<7984, 7991, 1, 8>>, <<8000, 8005, 1, 8>>,
   <<8017, 8023, 2, 8>>, <<8032, 8039, 1, 8>>, <<8048, 8049, 1, 74>>, <<8050, 8053, 1, 86>>,
   <<8054, 8055, 1, 100>>, <<8056, 8057, 1, 128>>, <<8058, 8059, 1, 112>>,
   <<8060, 8061, 1, 126>>, <<8064, 8071, 1, 8>>, <<8080, 8087, 1, 8>>, <<8096, 8103, 1, 8>>,
   <<8112, 8113, 1, 8>>, <<8115, 8115, 1, 9>>, <<8126, 8126, 1, -7205>>, <<8131, 8131, 1, 9>>,
   <<8144, 8145, 1, 8>>, <<8160, 8161, 1, 8>>, <<8165, 8165, 1, 7>>, <<8179, 8179, 1, 9>>,
   <<8526, 8526, 1, -28>>, <<8560, 8575, 1, -16>>, <<8580, 8580, 1, -1>>,
   <<9424, 9449, 1, -26>>, <<11312, 11359, 1, -48>>, <<11361, 11361, 1, -1>>,
   <<11365, 11365, 1, -10795>>, <<11366, 11366, 1, -10792>>, <<11368, 11372, 2, -1>>,
   <<11379, 11379, 1, -1>>, <<11382, 11382, 1, -1>>, <<11393, 11491, 2, -1>>,
   <<11500, 11502, 2, -1>>, <<11507, 11507, 1, -1>>, <<11520, 11557, 1, -7264>>,
   <<11559, 11559, 1, -7264>>, <<11565, 11565, 1, -7264>>, <<42561, 42605, 2, -1>>,
   <<42625, 42651, 2, -1>>, <<42787, 42799, 2, -1>>, <<42803, 42863, 2, -1>>,
   <<42874, 42876, 2, -1>>, <<42879, 42887, 2, -1>>, <<42892, 42892, 1, -1>>,
   <<42897, 42899, 2, -1>>, <<42900, 42900, 1, 48>>, <<42903, 42921, 2, -1>>,
   <<42933, 42947, 2, -1>>, <<42952, 42954, 2, -1>>, <<42961, 42961, 1, -1>>,
   <<42967, 42969, 2, -1>>, <<42998, 42998, 1, -1>>, <<43859, 43859, 1, -928>>,
   <<43888, 43967, 1, -38864>>, <<65345, 65370, 1, -32>>, <<66600, 66639, 1, -40>>,
   <<66776, 66811, 1, -40>>, <<66967, 67003, 2, -39>>, <<66968, 66976, 2, -39>>,
   <<66980, 66992, 2, -39>>, <<66996, 67000, 2, -39>>, <<67004, 67004, 1, -39>>,
   <<68800, 68850, 1, -64>>, <<71872, 71903, 1, -32>>, <<93792, 93823, 1, -32>>,
   <<125218, 125251, 1, -34>> >>

TitleSpecial ==
  << <<223, <<83, 115>>>>, <<329, <<700, 78>>>>, <<496, <<74, 780>>>>,
   <<912, <<921, 776, 769>>>>, <<944, <<933, 776, 769>>>>, <<1415, <<1333, 1410>>>>,
   <<7830, <<72, 817>>>>, <<7831, <<84, 776>>>>, <<7832, <<87, 778>>>>, <<7833, <<89, 778>>>>,
   <<7834, <<65, 702>>>>, <<8016, <<933, 787>>>>, <<8018, <<933, 787, 768>>>>,
   <<8020, <<933, 787, 769>>>>, <<8022, <<933, 787, 834>>>>, <<8114, <<8122, 837>>>>,
   <<8116, <<902, 837>>>>, <<8118, <<913, 834>>>>, <<8119, <<913, 834, 837>>>>,
   <<8130, <<8138, 837>>>>, <<8132, <<905, 837>>>>, <<8134, <<919, 834>>>>,
   <<8135, <<919, 834, 837>>>>, <<8146, <<921, 776, 768>>>>, <<8147, <<921, 776, 769>>>>,
   <<8150, <<921, 834>>>>, <<8151, <<921, 776, 834>>>>, <<8162, <<933, 776, 768>>>>,
   <<8163, <<933, 776, 769>>>>, <<8164, <<929, 787>>>>, <<8166, <<933, 834>>>>,
   <<8167, <<933, 776, 834>>>>, <<8178, <<8186, 837>>>>, <<8180, <<911, 837>>>>,
   <<8182, <<937, 834>>>>, <<8183, <<937, 834, 837>>>>, <<64256, <<70, 102>>>>,
   <<64257, <<70, 105>>>>, <<64258, <<70, 108>>>>, <<64259, <<70, 102, 105>>>>,
   <<64260, <<70, 102, 108>>>>, <<64261, <<83, 116>>>>, <<64262, <<83, 116>>>>,
   <<64275, <<1348, 1398>>>>, <<64276, <<1348, 1381>>>>, <<64277, <<1348, 1387>>>>,
   <<64278, <<1358, 1398>>>>, <<64279, <<1348, 1389>>>> >>

LowerRuns ==
  << <<65, 90, 1, 32>>, <<192, 214, 1, 32>>, <<216, 222, 1, 32>>, <<256, 302, 2, 1>>,
   <<306, 310, 2, 1>>, <<313, 327, 2, 1>>, <<330, 374, 2, 1>>, <<376, 376, 1, -121>>,
   <<377, 381, 2, 1>>, <<385, 385, 1, 210>>, <<386, 388, 2, 1>>, <<390, 390, 1, 206>>,
   <<391, 391, 1, 1>>, <<393, 394, 1, 205>>, <<395, 395, 1, 1>>, <<398, 398, 1, 79>>,
   <<399, 399, 1, 202>>, <<400, 400, 1, 203>>, <<401, 401, 1, 1>>, <<403, 403, 1, 205>>,
   <<404, 404, 1, 207>>, <<406, 406, 1, 211>>, <<407, 407, 1, 209>>, <<408, 408, 1, 1>>,
   <<412, 412, 1, 211>>, <<413, 413, 1, 213>>, <<415, 415, 1, 214>>, <<416, 420, 2, 1>>,
   <<422, 422, 1, 218>>, <<423, 423, 1, 1>>, <<425, 425, 1, 218>>, <<428, 428, 1, 1>>,
   <<430, 430, 1, 218>>, <<431, 431, 1, 1>>, <<433, 434, 1, 217>>, <<435, 437, 2, 1>>,
   <<439, 439, 1, 219>>, <<440, 440, 1, 1>>, <<444, 444, 1, 1>>, <<452, 452, 1, 2>>,
   <<453, 453, 1, 1>>, <<455, 455, 1, 2>>, <<456, 456, 1, 1>>, <<458, 458, 1, 2>>,
   <<459, 475, 2, 1>>, <<478, 494, 2, 1>>, <<497, 497, 1, 2>>, <<498, 500, 2, 1>>,
   <<502, 502, 1, -97>>, <<503, 503, 1, -56>>, <<504, 542, 2, 1>>, <<544, 544, 1, -130>>,
   <<546, 562, 2, 1>>, <<570, 570, 1, 10795>>, <<571, 571, 1, 1>>, <<573, 573, 1, -163>>,
   <<574, 574, 1, 10792>>, <<577, 577, 1, 1>>, <<579, 579, 1, -195>>, <<580, 580, 1, 69>>,
   <<581, 581, 1, 71>>, <<582, 590, 2, 1>>, <<880, 882, 2, 1>>, <<886, 886, 1, 1>>,
   <<895, 895, 1, 116>>, <<902, 902, 1, 38>>, <<904, 906, 1, 37>>, <<908, 908, 1, 64>>,
   <<910, 911, 1, 63>>, <<913, 929, 1, 32>>, <<931, 939, 1, 32>>, <<975, 975, 1, 8>>,
   <<984, 1006, 2, 1>>, <<1012, 1012, 1, -60>>, <<1015, 1015, 1, 1>>, <<1017, 1017, 1, -7>>,
   <<1018, 1018, 1, 1>>, <<1021, 1023, 1, -130>>, <<1024, 1039, 1, 80>>, <<1040, 1071, 1, 32>>,
   <<1120, 1152, 2, 1>>, <<1162, 1214, 2, 1>>, <<1216, 1216, 1, 15>>, <<1217, 1229, 2, 1>>,
   <<1232, 1326, 2, 1>>, <<1329, 1366, 1, 48>>, <<4256, 4293, 1, 7264>>,
   <<4295, 4295, 1, 7264>>, <<4301, 4301, 1, 7264>>, <<5024, 5103, 1, 38864>>,
   <<5104, 5109, 1, 8>>, <<7312, 7354, 1, -3008>>, <<7357, 7359, 1, -3008>>,
   <<7680, 7828, 2, 1>>, <<7838, 7838, 1, -7615>>, <<7840, 7934, 2, 1>>, <<7944, 7951, 1, -8>>,
   <<7960, 7965, 1, -8>>, <<7976, 7983, 1, -8>>, <<7992, 7999, 1, -8>>, <<8008, 8013, 1, -8>>,
   <<8025, 8031, 2, -8>>, <<8040, 8047, 1, -8>>, <<8072, 8079, 1, -8>>, <<8088, 8095, 1, -8>>,
   <<8104, 8111, 1, -8>>, <<8120, 8121, 1, -8>>, <<8122, 8123, 1, -74>>, <<8124, 8124, 1, -9>>,
   <<8136, 8139, 1, -86>>, <<8140, 8140, 1, -9>>, <<8152, 8153, 1, -8>>,
   <<8154, 8155, 1, -100>>, <<8168, 8169, 1, -8>>, <<8170, 8171, 1, -112>>,
   <<8172, 8172, 1, -7>>, <<8184, 8185, 1, -128>>, <<8186, 8187, 1, -126>>,
   <<8188, 8188, 1, -9>>, <<8486, 8486, 1, -7517>>, <<8490, 8490, 1, -8383>>,
   <<8491, 8491, 1, -8262>>, <<8498, 8498, 1, 28>>, <<8544, 8559, 1, 16>>,
   <<8579, 8579, 1, 1>>, <<9398, 9423, 1, 26>>, <<11264, 11311, 1, 48>>,
   <<11360, 11360, 1, 1>>, <<11362, 11362, 1, -10743>>, <<11363, 11363, 1, -3814>>,
   <<11364, 11364, 1, -10727>>, <<11367, 11371, 2, 1>>, <<11373, 11373, 1, -10780>>,
   <<11374, 11374, 1, -10749>>, <<11375, 11375, 1, -10783>>, <<11376, 11376, 1, -10782>>,
   <<11378, 11378, 1, 1>>, <<11381, 11381, 1, 1>>, <<11390, 11391, 1, -10815>>,
   <<11392, 11490, 2, 1>>, <<11499, 11501, 2, 1>>, <<11506, 11506, 1, 1>>,
   <<42560, 42604, 2, 1>>, <<42624, 42650, 2, 1>>, <<42786, 42798, 2, 1>>,
   <<42802, 42862, 2, 1>>, <<42873, 42875, 2, 1>>, <<42877, 42877, 1, -35332>>,
   <<42878, 42886, 2, 1>>, <<42891, 42891, 1, 1>>, <<42893, 42893, 1, -42280>>,
   <<42896, 42898, 2, 1>>, <<42902, 42920, 2, 1>>, <<42922, 42922, 1, -42308>>,
   <<42923, 42923, 1, -42319>>, <<42924, 42924, 1, -42315>>, <<42925, 42925, 1, -42305>>,
   <<42926, 42926, 1, -42308>>, <<42928, 42928, 1, -42258>>, <<42929, 42929, 1, -42282>>,
   <<42930, 42930, 1, -42261>>, <<42931, 42931, 1, 928>>, <<42932, 42946, 2, 1>>,
   <<42948, 42948, 1, -48>>, <<42949, 42949, 1, -42307>>, <<42950, 42950, 1, -35384>>,
   <<42951, 42953, 2, 1>>, <<42960, 42960, 1, 1>>, <<42966, 42968, 2, 1>>,
   <<42997, 42997, 1, 1>>, <<65313, 65338, 1, 32>>, <<66560, 66599, 1, 40>>,
   <<66736, 66771, 1, 40>>, <<66928, 66964, 2, 39>>, <<66929, 66937, 2, 39>>,
   <<66941, 66953, 2, 39>>, <<66957, 66961, 2, 39>>, <<66965, 66965, 1, 39>>,
   <<68736, 68786, 1, 64>>, <<71840, 71871, 1, 32>>, <<93760, 93791, 1, 32>>,
   <<125184, 125217, 1, 34>> >>

LowerSpecial ==
  << <<304, <<105, 775>>>> >>

CaseMap(runs, special, c) ==
  LET InRun(r) == r[1] <= c /\ c <= r[2] /\ (c - r[1]) % r[3] = 0
  IN IF \E k \in 1..Len(special) : special[k][1] = c
     THEN special[CHOOSE k \in 1..Len(special) : special[k][1] = c][2]
     ELSE IF \E k \in 1..Len(runs) : InRun(runs[k])
     THEN <<c + runs[CHOOSE k \in 1..Len(runs) : InRun(runs[k])][4]>>
     ELSE <<c>>

\* the title case of one character, as str.capitalize() applies it to the first
\* character of a str; it can be several characters ("Ss" for sharp s)
UpperCh(c) == CaseMap(TitleRuns, TitleSpecial, c)

\* the lower case of one character other than capital sigma
LowerCh(c) == CaseMap(LowerRuns, LowerSpecial, c)

(***************************************************************************)
(* String helpers (Python str methods).                                    *)
(***************************************************************************)
\* first index j >= i whose character is not in cls (Len(s)+1 if none): a greedy cls*
Span(s, i, cls) ==
  CHOOSE j \in i..(Len(s) + 1) :
    /\ j = Len(s) + 1 \/ Ch(s, j) \notin cls
    /\ \A k \in i..(j - 1) : Ch(s, k) \in cls

\* the least and the greatest element of a non-empty set of numbers
Min(S) == CHOOSE x \in S : \A y \in S : x <= y

Max(S) == CHOOSE x \in S : \A y \in S : y <= x

\* first index j >= i whose character is c (Len(s)+1 if none): a greedy [^c]*
Until(s, i, c) ==
  LET hits == {j \in i..Len(s) : Ch(s, j) = c}
  IN IF hits = {} THEN Len(s) + 1 ELSE Min(hits)

\* the literal lit occurs in s at index i
StartsAt(s, i, lit) == i + Len(lit) - 1 <= Len(s) /\ SubSeq(s, i, i + Len(lit) - 1) = lit

\* Python: pat in s
Contains(s, pat) == \E i \in 1..(Len(s) - Len(pat) + 1) : StartsAt(s, i, pat)

\* last index j <= i whose character is not in cls (0 if none)
SpanBack(s, i, cls) ==
  CHOOSE j \in 0..i :
    /\ j = 0 \/ Ch(s, j) \notin cls
    /\ \A k \in (j + 1)..i : Ch(s, k) \in cls

\* Python: s.strip()
Strip(s) == SubSeq(s, Span(s, 1, SpaceChars), SpanBack(s, Len(s), SpaceChars))

\* Python: s.split(c) for a one-character separator c: the pieces between the
\* separators, the k-th piece ending before the k-th separator
Split(s, c) ==
  LET seps == {j \in 1..Len(s) : Ch(s, j) = c}
      sep(k) == IF k = 0 THEN 0
                ELSE IF k > Cardinality(seps) THEN Len(s) + 1
                ELSE CHOOSE j \in seps : Cardinality({x \in seps : x < j}) = k - 1
  IN [k \in 1..(Cardinality(seps) + 1) |-> SubSeq(s, sep(k - 1) + 1, sep(k) - 1)]

\* Python: sep.join(parts)
RECURSIVE Join(_, _)
Join(parts, sep) ==
  IF Len(parts) = 0 THEN <<>>
  ELSE IF Len(parts) = 1 THEN parts[1]
  ELSE parts[1] \o sep \o Join(Tail(parts), sep)

\* the capital sigma at index i of s is a final one: a cased character comes before
\* it and none comes after it, case-ignorable characters skipped on both sides
FinalSigma(s, i) ==
  LET before == {j \in 1..(i - 1) : Ch(s, j) \notin CaseIgnorable}
      after == {j \in (i + 1)..Len(s) : Ch(s, j) \notin CaseIgnorable}
  IN /\ before # {}
     /\ Ch(s, Max(before)) \in Cased
     /\ after = {} \/ Ch(s, Min(after)) \notin Cased

\* the lower case of the character at index i of s, as str.lower() and
\* str.capitalize() write it: U+03A3 gives U+03C2 when final and U+03C3 otherwise
LowerAt(s, i) ==
  IF Ch(s, i) = 931 THEN <<IF FinalSigma(s, i) THEN 962 ELSE 963>> ELSE LowerCh(Ch(s, i))

\* Python: s.lower()
Lower(s) == Join([i \in 1..Len(s) |-> LowerAt(s, i)], <<>>)

\* Python: s.capitalize(): the first character in title case, the others in lower case
Capitalize(s) ==
  Join([i \in 1..Len(s) |-> IF i = 1 THEN UpperCh(Ch(s, 1)) ELSE LowerAt(s, i)], <<>>)

\* Python: s.replace(pat, "") for a non-empty pat
RECURSIVE Remove(_, _)
Remove(s, pat) ==
  IF Len(s) = 0 THEN <<>>
  ELSE IF StartsAt(s, 1, pat) THEN Remove(SubSeq(s, Len(pat) + 1, Len(s)), pat)
  ELSE <<Ch(s, 1)>> \o Remove(SubSeq(s, 2, Len(s)), pat)

(***************************************************************************)
(* The insertion-ordered dict parsed_elements: a sequence of entries, each *)
(* a record with its key in the field name.                                *)
(***************************************************************************)
Keys(d) == {d[i].name : i \in 1..Len(d)}

IndexOf(d, k) == CHOOSE i \in 1..Len(d) : d[i].name = k

Get(d, k) == d[IndexOf(d, k)]

\* d[k] = e: an existing key keeps its place and takes the new value
DictSet(d, e) == IF e.name \in Keys(d) THEN [d EXCEPT ![IndexOf(d, e.name)] = e] ELSE Append(d, e)

(***************************************************************************)
(* The regular expressions.  A match is a record with found = TRUE, the    *)
(* captured groups and end, the index after the match.                     *)
(***************************************************************************)
NoMatch == [found |-> FALSE]

\* kw\s+(\w+)\s*\{([^}]*)\} matched at index i
DeclarationAt(s, i, kw) ==
  LET a == i + Len(kw)
      b == Span(s, a, SpaceChars)
      c == Span(s, b, WordChars)
      d == Span(s, c, SpaceChars)
      e == Until(s, d + 1, RBrace)
  IN IF StartsAt(s, i, kw) /\ b > a /\ c > b /\ StartsAt(s, d, <<LBrace>>) /\ e <= Len(s)
     THEN [found |-> TRUE, name |-> SubSeq(s, b, c - 1), body |-> SubSeq(s, d + 1, e - 1),
           end |-> e + 1]
     ELSE NoMatch

\* class_pattern matched at index i: (?:(abstract)\s+)?class\s+(\w+)\s*\{([^}]*)\}
ClassPatternAt(s, i) ==
  LET j == Span(s, i + Len(KwAbstract), SpaceChars)
      withAbstract == IF StartsAt(s, i, KwAbstract) /\ j > i + Len(KwAbstract)
                      THEN DeclarationAt(s, j, KwClass) ELSE NoMatch
      plain == DeclarationAt(s, i, KwClass)
  IN IF withAbstract.found
     THEN [found |-> TRUE, is_abstract |-> TRUE, name |-> withAbstract.name,
           body |-> withAbstract.body, end |-> withAbstract.end]
     ELSE IF plain.found
     THEN [found |-> TRUE, is_abstract |-> FALSE, name |-> plain.name,
           body |-> plain.body, end |-> plain.end]
     ELSE NoMatch

\* interface_pattern matched at index i: interface\s+(\w+)\s*\{([^}]*)\}
InterfacePatternAt(s, i) == DeclarationAt(s, i, KwInterface)

\* (\w+)\s*op\s*(\w+) matched at index i; the group \w+ is greedy and gives
\* characters back only when what follows cannot match, which never helps here
RelationAt(s, i, op) ==
  LET a == Span(s, i, WordChars)
      b == Span(s, a, SpaceChars)
      c == Span(s, b + Len(op), SpaceChars)
      d == Span(s, c, WordChars)
  IN IF a > i /\ StartsAt(s, b, op) /\ d > c
     THEN [found |-> TRUE, left |-> SubSeq(s, i, a - 1), right |-> SubSeq(s, c, d - 1),
           end |-> d]
     ELSE NoMatch

\* inheritance_pattern: (\w+)\s*<\|--\s*(\w+)
InheritancePatternAt(s, i) == RelationAt(s, i, OpInheritance)

\* implementation_pattern: (\w+)\s*\.\.\|>\s*(\w+)
ImplementationPatternAt(s, i) == RelationAt(s, i, OpImplementation)

\* one step of pattern.finditer: the leftmost match starting at or after from
NextClass(s, from) ==
  LET starts == {i \in from..Len(s) : ClassPatternAt(s, i).found}
  IN IF starts = {} THEN NoMatch ELSE ClassPatternAt(s, Min(starts))

NextInterface(s, from) ==
  LET starts == {i \in from..Len(s) : InterfacePatternAt(s, i).found}
  IN IF starts = {} THEN NoMatch ELSE InterfacePatternAt(s, Min(starts))

NextInheritance(s, from) ==
  LET starts == {i \in from..Len(s) : InheritancePatternAt(s, i).found}
  IN IF starts = {} THEN NoMatch ELSE InheritancePatternAt(s, Min(starts))

NextImplementation(s, from) ==
  LET starts == {i \in from..Len(s) : ImplementationPatternAt(s, i).found}
  IN IF starts = {} THEN NoMatch ELSE ImplementationPatternAt(s, Min(starts))

(***************************************************************************)
(* member_pattern, applied with .match to a stripped body line.  Every     *)
(* optional group is taken when it can match: skipping one never lets the  *)
(* rest of the pattern match where taking it does not.                     *)
(***************************************************************************)
\* ^\s*([+\-#~])\s*(\w+)(?:\s*:\s*(\w+))?(?:\(([^)]*)\))?(?:\s*:\s*(\w+))?$
\* the optional group (?:\s*:\s*(\w+))? at index i; word is "" when it does not take part
ColonWordAt(s, i) ==
  LET a == Span(s, i, SpaceChars)
      b == Span(s, a + 1, SpaceChars)
      c == Span(s, b, WordChars)
  IN IF StartsAt(s, a, <<Colon>>) /\ c > b
     THEN [word |-> SubSeq(s, b, c - 1), end |-> c]
     ELSE [word |-> <<>>, end |-> i]

\* the optional group (?:\(([^)]*)\))? at index i
ParamListAt(s, i) ==
  LET q == Until(s, i + 1, RParen)
  IN IF StartsAt(s, i, <<LParen>>) /\ q <= Len(s)
     THEN [taken |-> TRUE, params_str |-> SubSeq(s, i + 1, q - 1), end |-> q + 1]
     ELSE [taken |-> FALSE, params_str |-> <<>>, end |-> i]

MemberPatternMatch(s) ==
  LET p0 == Span(s, 1, SpaceChars)
      p1 == Span(s, p0 + 1, SpaceChars)
      p2 == Span(s, p1, WordChars)
      g3 == ColonWordAt(s, p2)
      g4 == ParamListAt(s, g3.end)
      g5 == ColonWordAt(s, g4.end)
  IN IF p0 <= Len(s) /\ Ch(s, p0) \in VisibilityChars /\ p2 > p1 /\ g5.end = Len(s) + 1
     THEN [found |-> TRUE, visibility_char |-> Ch(s, p0), member_name |-> SubSeq(s, p1, p2 - 1),
           attr_type |-> g3.word, is_method |-> g4.taken, params_str |-> g4.params_str,
           return_type |-> g5.word]
     ELSE NoMatch

\* the dict lookup {'+': 'public', ...}.get(visibility_char, 'public'); the four
\* visibilities, like the three type tags, are written as literals and pass
\* through Str when a file is written
JavaVisibility(c) ==
  CASE c = Code["+"] -> "public"
    [] c = Code["-"] -> "private"
    [] c = Code["#"] -> "protected"
    [] c = Code["~"] -> ""
    [] OTHER -> "public"

\* one parameter "name: type" becomes "type name"; anything else is kept as it is
JavaParam(p) ==
  LET p_parts == Split(Strip(p), Colon)
  IN IF Len(p_parts) = 2 THEN Strip(p_parts[2]) \o Str(" ") \o Strip(p_parts[1]) ELSE Strip(p)

JavaParams(params_str) ==
  IF params_str = <<>> THEN <<>>
  ELSE LET ps == Split(params_str, Comma)
       IN Join([i \in 1..Len(ps) |-> JavaParam(ps[i])], Str(", "))

\* the body of the loop over the lines of one declaration body (Pass 2)
ParseLine(details, line) ==
  LET m == MemberPatternMatch(Strip(line))
  IN IF ~m.found THEN details
     ELSE IF m.is_method
     THEN [details EXCEPT !.methods = Append(@,
             [visibility |-> JavaVisibility(m.visibility_char), name |-> m.member_name,
              parameters |-> JavaParams(m.params_str),
              return_type |-> IF m.return_type # <<>> THEN m.return_type ELSE Str("void")])]
     ELSE [details EXCEPT !.attributes = Append(@,
             [visibility |-> JavaVisibility(m.visibility_char),
              type |-> IF m.attr_type # <<>> THEN m.attr_type ELSE Str("Object"),
              name |-> m.member_name])]

RECURSIVE ParseLines(_, _)
ParseLines(details, lines) ==
  IF lines = <<>> THEN details ELSE ParseLines(ParseLine(details, Head(lines)), Tail(lines))

ParseBody(details) == ParseLines(details, Split(details.body, Newline))

(***************************************************************************)
(* Pass 4: the text written to <name>.java.                                *)
(***************************************************************************)
\* the two import blocks and the blank line after them (f.tell() > 0)
Imports(details) ==
  LET attrs == details.attributes
      meths == details.methods
      needDate == \/ \E i \in 1..Len(attrs) : attrs[i].type = Str("Date")
                  \/ \E i \in 1..Len(meths) : \/ Contains(meths[i].parameters, Str("Date"))
                                              \/ Contains(meths[i].return_type, Str("Date"))
      needList == \/ \E i \in 1..Len(attrs) : Contains(attrs[i].type, Str("List"))
                  \/ \E i \in 1..Len(meths) : \/ Contains(meths[i].parameters, Str("List"))
                                              \/ Contains(meths[i].return_type, Str("List"))
      written == (IF needDate THEN Str("import java.util.Date;\n") ELSE <<>>)
                 \o (IF needList THEN Str("import java.util.List;\nimport java.util.ArrayList;\n")
                     ELSE <<>>)
  IN IF Len(written) > 0 THEN written \o Str("\n") ELSE written

\* declaration_line, with its extends and implements clauses
DeclarationLine(name, details, rel) ==
  LET kind == CASE details.type = "abstract_class" -> Str("public abstract class ") \o name
                [] details.type = "class" -> Str("public class ") \o name
                [] details.type = "interface" -> Str("public interface ") \o name
                [] OTHER -> <<>>
      ext == IF name \in DOMAIN rel.extends THEN Str(" extends ") \o rel.extends[name] ELSE <<>>
      impl == IF name \in DOMAIN rel.implements
              THEN Str(" implements ") \o Join(rel.implements[name], Str(", ")) ELSE <<>>
  IN kind \o ext \o impl

\* one field line per attribute and a blank line after them if there are any
AttributeLines(details) ==
  LET attrs == details.attributes
      fields == [i \in 1..Len(attrs) |->
                   Str("    ") \o Str(attrs[i].visibility) \o Str(" ") \o attrs[i].type
                   \o Str(" ") \o attrs[i].name
                   \o Str(";\n")]
  IN Join(fields, <<>>) \o (IF Len(attrs) > 0 THEN Str("\n") ELSE <<>>)

\* [f"{attr['type']} {attr['name']}" for attr in attrs]
ParamsOf(attrs) == [i \in 1..Len(attrs) |-> attrs[i].type \o Str(" ") \o attrs[i].name]

\* the assignments "this.a = a;" of a constructor body
Assignments(attrs) ==
  Join([i \in 1..Len(attrs) |->
          Str("        this.") \o attrs[i].name \o Str(" = ") \o attrs[i].name \o Str(";\n")], <<>>)

\* a faulty constructor for C7: the own attributes come before those of the parent
Constructor_OwnFirst(name, details, elements, rel) ==
  LET own == details.attributes
      qualifies == /\ name \in DOMAIN rel.extends
                   /\ rel.extends[name] \in Keys(elements)
                   /\ Get(elements, rel.extends[name]).type # "interface"
      parent_attrs == IF qualifies THEN Get(elements, rel.extends[name]).attributes ELSE <<>>
  IN IF details.type = "interface" THEN <<>>
     ELSE Str("    public ") \o name \o Str("(")
          \o Join(ParamsOf(own) \o ParamsOf(parent_attrs), Str(", "))
          \o Str(") {\n")
          \o (IF Len(parent_attrs) > 0
              THEN Str("        super(")
                   \o Join([i \in 1..Len(parent_attrs) |-> parent_attrs[i].name], Str(", "))
                   \o Str(");\n")
              ELSE <<>>)
          \o Assignments(own) \o Str("    }\n\n")

\* the constructor, written for every type that is not an interface
Constructor(name, details, elements, rel) ==
  LET own == details.attributes
      hasParent == name \in DOMAIN rel.extends
      parent_class == rel.extends[name]
      qualifies == /\ hasParent
                   /\ parent_class # <<>>
                   /\ parent_class \in Keys(elements)
                   /\ Get(elements, parent_class).type # "interface"
      parent_attrs == Get(elements, parent_class).attributes
      super_call_params == [i \in 1..Len(parent_attrs) |-> parent_attrs[i].name]
  IN IF details.type = "interface" THEN <<>>
     ELSE IF qualifies
     THEN Str("    public ") \o name \o Str("(")
          \o Join(ParamsOf(parent_attrs) \o ParamsOf(own), Str(", "))
          \o Str(") {\n")
          \o (IF Len(super_call_params) > 0
              THEN Str("        super(") \o Join(super_call_params, Str(", ")) \o Str(");\n")
              ELSE <<>>)
          \o Assignments(own) \o Str("    }\n\n")
     ELSE Str("    public ") \o name \o Str("(") \o Join(ParamsOf(own), Str(", ")) \o Str(") {\n")
          \o Assignments(own) \o Str("    }\n\n")

\* a getter and a setter for one attribute
Accessor(attr) ==
  Str("    public ") \o attr.type \o Str(" get") \o Capitalize(attr.name) \o Str("() {\n")
  \o Str("        return ") \o attr.name \o Str(";\n")
  \o Str("    }\n\n")
  \o Str("    public void set") \o Capitalize(attr.name) \o Str("(") \o attr.type \o Str(" ")
  \o attr.name
  \o Str(") {\n")
  \o Str("        this.") \o attr.name \o Str(" = ") \o attr.name \o Str(";\n")
  \o Str("    }\n\n")

\* getters and setters, for the private attributes
Accessors(details) ==
  LET attrs == details.attributes
  IN Join([i \in 1..Len(attrs) |->
             IF attrs[i].visibility = "private" THEN Accessor(attrs[i]) ELSE <<>>], <<>>)

\* the body of the loop over methods: the text written, and the method record as
\* the loop leaves it (its name and visibility are assigned in place)
RenderMethod(type, method) ==
  LET isAbstract == /\ type = "abstract_class"
                    /\ method.visibility = "public"
                    /\ Contains(Lower(method.name), Str("abstract"))
      name1 == IF isAbstract THEN Strip(Remove(method.name, Str("{abstract}"))) ELSE method.name
      visibility == IF ~isAbstract /\ type = "interface" THEN "public" ELSE method.visibility
      isStatic == Contains(Lower(name1), Str("{static}"))
      name2 == IF isStatic THEN Strip(Remove(name1, Str("{static}"))) ELSE name1
      method_modifier == (IF isAbstract THEN Str("abstract ") ELSE <<>>)
                         \o (IF isStatic THEN Str("static ") ELSE <<>>)
      signature == Str("    ") \o Str(visibility) \o Str(" ") \o method_modifier
                   \o method.return_type \o Str(" ")
                   \o name2 \o Str("(") \o method.parameters \o Str(")")
      rest == IF type = "interface" \/ Strip(method_modifier) = Str("abstract")
              THEN Str(";\n\n")
              ELSE Str(" {\n") \o Str("        // TODO: Implement method logic\n")
                   \o (IF method.return_type # Str("void")
                       THEN Str("        return default") \o method.return_type
                            \o Str("Value(); // Placeholder return\n")
                       ELSE <<>>)
                   \o Str("    }\n\n")
  IN [written |-> signature \o rest,
      method |-> [method EXCEPT !.name = name2, !.visibility = visibility]]

\* what the first n iterations of the loop over methods write
Methods(details, n) ==
  Join([i \in 1..n |-> RenderMethod(details.type, details.methods[i]).written], <<>>)

\* everything written before the loop over methods
FileHead(name, details, elements, rel) ==
  Imports(details)
  \o DeclarationLine(name, details, rel) \o Str(" {\n")
  \o AttributeLines(details)
  \o Constructor(name, details, elements, rel)
  \o Accessors(details)

\* everything written to the file of one declaration
FileContent(name, details, elements, rel) ==
  FileHead(name, details, elements, rel)
  \o Methods(details, Len(details.methods))
  \o Str("}\n")

\* the declaration after the first n iterations of the loop over methods, which
\* assign to the method records
AfterRender(details, n) ==
  [details EXCEPT !.methods =
     [i \in 1..Len(details.methods) |->
        IF i <= n THEN RenderMethod(details.type, details.methods[i]).method
        ELSE details.methods[i]]]

(***************************************************************************)
(* Pass 4: the exceptions of open() and f.write().                         *)
(***************************************************************************)
\* the length in bytes of the UTF-8 encoding of s, the encoding of file names
Utf8Len(s) ==
  Len(s) + Cardinality({i \in 1..Len(s) : s[i] >= 128})
  + Cardinality({i \in 1..Len(s) : s[i] >= 2048})
  + Cardinality({i \in 1..Len(s) : s[i] >= 65536})

\* the longest file name, in bytes, that open() can create
NAME_MAX == 255

\* the last component of file_name
FileName(name) == name \o Str(".java")

\* open(file_name, 'w') raises OSError (File name too long) and creates nothing
OpenRaises(name) == Utf8Len(FileName(name)) > NAME_MAX

\* the surrogates U+D800..U+DFFF, which the encoder of the file refuses
Surrogates == 55296..57343

\* the methods whose signature f.write() cannot encode: a name, a type and a
\* visibility are word characters, so only the parameters can hold a surrogate
Unencodable(details) ==
  {i \in 1..Len(details.methods) :
     \E j \in 1..Len(details.methods[i].parameters) :
       details.methods[i].parameters[j] \in Surrogates}

\* what is in the file when the signature of method k raises UnicodeEncodeError:
\* the writes before it, which the with statement flushes as it closes the file
PartialContent(name, details, elements, rel, k) ==
  FileHead(name, details, elements, rel) \o Methods(details, k - 1)

(***************************************************************************)
(* The diagrams explored: plantuml_content is drawn from three families.   *)
(***************************************************************************)
SeqsUpTo(S, n) == UNION {[1..k -> S] : k \in 0..n}

\* body lines of a declaration, indented as in the sample diagram; the last one is
\* a private attribute named U+00E9 U+03A3, with U+2003 before its type T
MemberPool ==
  {Str("- aB: T"), Str("+ n"), Str("~ q"), Str("# d(x: Date, y)"), Str("+ f(): T"),
   Str("+ {abstract} g(): T"), Str("+ abstractF(): T"), Str("m: T"), Str("* k"),
   Str("- ") \o <<233, 931>> \o Str(":") \o <<8195>> \o Str("T")}

Block(kw, name, lines) ==
  kw \o Str(" ") \o name \o Str(" {\n")
  \o Join([i \in 1..Len(lines) |-> Str("  ") \o lines[i] \o Str("\n")], <<>>) \o Str("}\n")

\* n times the character c
Rep(c, n) == [i \in 1..n |-> c]

KindKeywords == {Str("class"), Str("abstract class"), Str("interface")}

\* one declaration A of each kind with up to MaxMembers body lines
MemberTexts ==
  {Block(kw, Str("A"), b) : kw \in KindKeywords, b \in SeqsUpTo(MemberPool, MaxMembers)}

\* declarations that share names, and one without a body
DeclPool ==
  {Block(Str("class"), Str("P"), <<>>),
   Block(Str("abstract class"), Str("P"), Strs(<<"- n: T">>)),
   Block(Str("interface"), Str("P"), Strs(<<"+ f()">>)),
   Block(Str("class"), Str("S"), Strs(<<"+ k">>)),
   Block(Str("interface"), Str("I"), <<>>),
   Str("class Q\n")}

DeclTexts == {Join(ds, <<>>) : ds \in SeqsUpTo(DeclPool, MaxDecls)}

\* fixed declarations followed by up to MaxRels relationship lines
Scenarios ==
  {Block(Str("abstract class"), Str("P"), Strs(<<"- n: T">>))
     \o Block(Str("class"), Str("S"), Strs(<<"- aB: T", "+ k">>))
     \o Block(Str("class"), Str("G"), <<>>)
     \o Block(Str("interface"), Str("I"), Strs(<<"+ f()">>))
     \o Block(Str("interface"), Str("J"), <<>>),
   Block(Str("class"), Str("S"), Strs(<<"- aB: T">>)) \o Block(Str("interface"), Str("I"), <<>>),
   Block(Str("interface"), Str("P"), Strs(<<"- n: T">>))
     \o Block(Str("class"), Str("S"), <<>>)
     \o Block(Str("class"), Str("G"), Strs(<<"# g: T", "- h: T">>))
     \o Block(Str("interface"), Str("I"), Strs(<<"- x: T">>))
     \o Block(Str("interface"), Str("J"), <<>>)}

RelPool ==
  {Str("P <|-- S\n"), Str("S <|-- G\n"), Str("G <|-- P\n"), Str("S <|-- I\n"), Str("I <|-- J\n"),
   Str("S ..|> I\n"), Str("S ..|> J\n"), Str("I ..|> J\n")}

RelTexts == {sc \o Join(rs, <<>>) : sc \in Scenarios, rs \in SeqsUpTo(RelPool, MaxRels)}

\* the end-to-end example: a parent, a child and one generalization line
ExampleTexts ==
  {Str("abstract class Person { - name: String }\nclass Student { - id: String }\n")
   \o Str("Person <|-- Student\n")}

\* names whose file name has NAME_MAX bytes, and names one character longer, of
\* characters of one (x), two (U+00E9), three (U+4E2D) and four (U+1D400) bytes
LongNames ==
  {Rep(120, NAME_MAX - 5), Rep(120, NAME_MAX - 4),
   Rep(233, 125), Rep(233, 126),
   Rep(20013, 83) \o Str("a"), Rep(20013, 83) \o Str("aa"),
   Rep(119808, 62) \o Str("aa"), Rep(119808, 62) \o Str("aaa")}

\* a declaration with such a name between two others
LongNameTexts ==
  {Block(Str("class"), Str("B"), Strs(<<"- n: T">>)) \o Block(Str("class"), N, <<>>)
     \o Block(Str("interface"), Str("C"), <<>>) : N \in LongNames}

\* a surrogate in the parameters of a method of a class and of an interface, and
\* one in a body line that is no member
SurrogateTexts ==
  {Block(Str("class"), Str("A"),
         <<Str("- a: T"), Str("+ f(): T"), Str("+ g(x") \o <<55296>> \o Str(")"), Str("+ h()")>>)
     \o Block(Str("class"), Str("B"), <<>>),
   Block(Str("class"), Str("B"), <<>>)
     \o Block(Str("interface"), Str("A"),
               <<Str("+ g(x: ") \o <<57343>> \o Str(", y): T"), Str("+ h()")>>)
     \o Block(Str("class"), Str("C"), <<>>),
   Block(Str("class"), Str("A"), <<<<56320>> \o Str("+ g(x)"), Str("+ h()")>>)}

InputTexts ==
  MemberTexts \cup DeclTexts \cup RelTexts \cup ExampleTexts \cup LongNameTexts
  \cup SurrogateTexts

(***************************************************************************)
(* The state machine: generate_java_code_from_plantuml, one loop iteration *)
(* per step.                                                               *)
(***************************************************************************)
Init ==
  /\ text \in InputTexts
  /\ pc = "classes"
  /\ pos = 1
  /\ idx = 1
  /\ parsed_elements = <<>>
  /\ relationships = [extends |-> <<>>, implements |-> <<>>]
  /\ files = <<>>

\* Pass 1, one match of class_pattern.finditer
ClassMatch ==
  /\ pc = "classes"
  /\ NextClass(text, pos).found
  /\ LET m == NextClass(text, pos)
     IN /\ parsed_elements' = DictSet(parsed_elements,
              [name |-> m.name, type |-> IF m.is_abstract THEN "abstract_class" ELSE "class",
               attributes |-> <<>>, methods |-> <<>>, body |-> m.body])
        /\ pos' = m.end
  /\ UNCHANGED <<text, pc, idx, relationships, files>>

ClassScanEnd ==
  /\ pc = "classes"
  /\ ~NextClass(text, pos).found
  /\ pc' = "interfaces"
  /\ pos' = 1
  /\ UNCHANGED <<text, idx, parsed_elements, relationships, files>>

\* Pass 1, one match of interface_pattern.finditer
InterfaceMatch ==
  /\ pc = "interfaces"
  /\ NextInterface(text, pos).found
  /\ LET m == NextInterface(text, pos)
     IN /\ parsed_elements' = DictSet(parsed_elements,
              [name |-> m.name, type |-> "interface",
               attributes |-> <<>>, methods |-> <<>>, body |-> m.body])
        /\ pos' = m.end
  /\ UNCHANGED <<text, pc, idx, relationships, files>>

InterfaceScanEnd ==
  /\ pc = "interfaces"
  /\ ~NextInterface(text, pos).found
  /\ pc' = "members"
  /\ idx' = 1
  /\ UNCHANGED <<text, pos, parsed_elements, relationships, files>>

\* Pass 2, the members of one declaration
ParseMembers ==
  /\ pc = "members"
  /\ idx <= Len(parsed_elements)
  /\ parsed_elements' = [parsed_elements EXCEPT ![idx] = ParseBody(@)]
  /\ idx' = idx + 1
  /\ UNCHANGED <<text, pc, pos, relationships, files>>

MembersEnd ==
  /\ pc = "members"
  /\ idx > Len(parsed_elements)
  /\ pc' = "extends"
  /\ pos' = 1
  /\ UNCHANGED <<text, idx, parsed_elements, relationships, files>>

\* a faulty scan for C10: the edge is recorded whether or not the names are declared
RecordExtends_Unchecked(rel, elements, child, parent) ==
  [rel EXCEPT !.extends = (child :> parent) @@ @]

\* relationships['extends'][child] = parent, when both names are declared
RecordExtends(rel, elements, child, parent) ==
  IF child \in Keys(elements) /\ parent \in Keys(elements)
  THEN [rel EXCEPT !.extends = (child :> parent) @@ @]
  ELSE rel

\* relationships['implements'][implementing_class].append(interface), when both are declared
RecordImplements(rel, elements, implementing_class, interface) ==
  IF implementing_class \in Keys(elements) /\ interface \in Keys(elements)
  THEN [rel EXCEPT !.implements =
          (implementing_class :>
             Append(IF implementing_class \in DOMAIN @ THEN @[implementing_class] ELSE <<>>,
                    interface)) @@ @]
  ELSE rel

\* Pass 3, one match of inheritance_pattern.finditer: child, parent = match.groups()
ExtendsMatch ==
  /\ pc = "extends"
  /\ NextInheritance(text, pos).found
  /\ LET m == NextInheritance(text, pos)
     IN /\ relationships' = RecordExtends(relationships, parsed_elements, m.left, m.right)
        /\ pos' = m.end
  /\ UNCHANGED <<text, pc, idx, parsed_elements, files>>

ExtendsScanEnd ==
  /\ pc = "extends"
  /\ ~NextInheritance(text, pos).found
  /\ pc' = "implements"
  /\ pos' = 1
  /\ UNCHANGED <<text, idx, parsed_elements, relationships, files>>

\* Pass 3, one match of implementation_pattern.finditer
ImplementsMatch ==
  /\ pc = "implements"
  /\ NextImplementation(text, pos).found
  /\ LET m == NextImplementation(text, pos)
     IN /\ relationships' = RecordImplements(relationships, parsed_elements, m.left, m.right)
        /\ pos' = m.end
  /\ UNCHANGED <<text, pc, idx, parsed_elements, files>>

ImplementsScanEnd ==
  /\ pc = "implements"
  /\ ~NextImplementation(text, pos).found
  /\ pc' = "generate"
  /\ idx' = 1
  /\ UNCHANGED <<text, pos, parsed_elements, relationships, files>>

\* Pass 4, the file of one declaration.  Nothing catches an exception of open()
\* or f.write(): it ends the function, and the declarations after this one get no
\* file.
GenerateFile ==
  /\ pc = "generate"
  /\ idx <= Len(parsed_elements)
  /\ LET details == parsed_elements[idx]
         name == details.name
         bad == Unencodable(details)
     IN IF OpenRaises(name)
        THEN /\ pc' = "OSError"
             /\ UNCHANGED <<idx, parsed_elements, files>>
        ELSE IF bad # {}
        THEN /\ pc' = "UnicodeEncodeError"
             /\ files' = (name :> PartialContent(name, details, parsed_elements, relationships,
                                                 Min(bad))) @@ files
             /\ parsed_elements' = [parsed_elements EXCEPT ![idx] = AfterRender(details, Min(bad))]
             /\ UNCHANGED idx
        ELSE /\ files' = (name :> FileContent(name, details, parsed_elements, relationships))
                         @@ files
             /\ parsed_elements' = [parsed_elements EXCEPT ![idx] =
                                      AfterRender(details, Len(details.methods))]
             /\ idx' = idx + 1
             /\ UNCHANGED pc
  /\ UNCHANGED <<text, pos, relationships>>

GenerateEnd ==
  /\ pc = "generate"
  /\ idx > Len(parsed_elements)
  /\ pc' = "done"
  /\ UNCHANGED <<text, pos, idx, parsed_elements, relationships, files>>

Next ==
  \/ ClassMatch
  \/ ClassScanEnd
  \/ InterfaceMatch
  \/ InterfaceScanEnd
  \/ ParseMembers
  \/ MembersEnd
  \/ ExtendsMatch
  \/ ExtendsScanEnd
  \/ ImplementsMatch
  \/ ImplementsScanEnd
  \/ GenerateFile
  \/ GenerateEnd

Spec == Init /\ [][Next]_vars

(***************************************************************************)
(* Reading the generated files and the diagram, for the properties below.  *)
(***************************************************************************)
EndsWith(s, suffix) == Len(s) >= Len(suffix) /\ StartsAt(s, Len(s) - Len(suffix) + 1, suffix)

FileLines(content) == Split(content, Newline)

\* the lines of a file that start with "public" in the first column
HeaderLines(content) ==
  {i \in 1..Len(FileLines(content)) : StartsAt(FileLines(content)[i], 1, Str("public "))}

HeaderLine(content) == FileLines(content)[CHOOSE i \in HeaderLines(content) : TRUE]

\* the type names the explored diagrams use
TypeNames ==
  {Str("A"), Str("B"), Str("C"), Str("P"), Str("S"), Str("G"), Str("I"), Str("J"), Str("Q"),
   Str("Person"), Str("Student")}

Declared == Keys(parsed_elements)

\* the function has returned, or an exception has ended it
Over == pc \in {"done", "OSError", "UnicodeEncodeError"}

UpperFirst(s) == IF s = <<>> THEN <<>> ELSE UpperCh(Ch(s, 1)) \o SubSeq(s, 2, Len(s))

(***************************************************************************)
(* C1                                                                      *)
(***************************************************************************)
\* places in t where "<kw> <N> {" is written and a closing brace follows
C1_DeclaredAt(t, kw, N) ==
  {i \in 1..Len(t) :
     StartsAt(t, i, kw \o Str(" ") \o N \o Str(" {")) /\ Until(t, i, RBrace) <= Len(t)}

C1_Names(t) ==
  {N \in TypeNames \cup LongNames :
     C1_DeclaredAt(t, KwClass, N) \cup C1_DeclaredAt(t, KwInterface, N) # {}}

\* the Java keyword of the last declaration of N: interface matches are recorded
\* after all class matches, and the last class match is the rightmost one
C1_Keyword(t, N) ==
  IF C1_DeclaredAt(t, KwInterface, N) # {} THEN KwInterface
  ELSE LET last == CHOOSE i \in C1_DeclaredAt(t, KwClass, N) :
                     \A j \in C1_DeclaredAt(t, KwClass, N) : j <= i
       IN IF last > 9 /\ StartsAt(t, last - 9, Str("abstract "))
          THEN Str("abstract class") ELSE KwClass

\* C1: for every diagram the run returns without an exception, and when it is
\* over the generated files are exactly the declared type names; each file has
\* one header line, which names the type with the kind of its last declaration (a
\* later declaration of a name overwrites the earlier one); a diagram without
\* declarations gives no file.
C1_ArtifactsAreDeclaredNames ==
  /\ pc \notin {"OSError", "UnicodeEncodeError"}
  /\ Over =>
       /\ DOMAIN files = C1_Names(text)
       /\ \A N \in DOMAIN files :
            /\ Cardinality(HeaderLines(files[N])) = 1
            /\ \/ HeaderLine(files[N])
                    = Str("public ") \o C1_Keyword(text, N) \o Str(" ") \o N \o Str(" {")
               \/ StartsAt(HeaderLine(files[N]), 1,
                           Str("public ") \o C1_Keyword(text, N) \o Str(" ") \o N \o Str(" "))

(***************************************************************************)
(* C2                                                                      *)
(***************************************************************************)
\* C2: for every line "A <|-- B" with A and B declared, the header of B's file
\* says "extends A"; when A is not declared B's header does not; and in the example
\* diagram Student extends Person, with a constructor taking name then id that
\* calls super(name) before assigning id.
C2_ChildExtendsLeftHandSide ==
  pc = "done" =>
    /\ \A A \in TypeNames, B \in TypeNames :
         Contains(text, A \o Str(" <|-- ") \o B \o Str("\n")) /\ B \in Declared =>
           IF A \in Declared
           THEN Contains(HeaderLine(files[B]), Str(" extends ") \o A)
           ELSE ~Contains(HeaderLine(files[B]), Str(" extends ") \o A)
    /\ text \in ExampleTexts =>
         /\ DOMAIN files = {Str("Person"), Str("Student")}
         /\ HeaderLine(files[Str("Student")]) = Str("public class Student extends Person {")
         /\ ~Contains(HeaderLine(files[Str("Person")]), Str(" extends "))
         /\ Contains(files[Str("Student")],
                     Str("    public Student(String name, String id) {\n")
                     \o Str("        super(name);\n")
                     \o Str("        this.id = id;\n")
                     \o Str("    }\n"))

(***************************************************************************)
(* C3                                                                      *)
(***************************************************************************)
\* the matches of implementation_pattern in text order
RECURSIVE C3_Realizations(_, _)
C3_Realizations(t, from) ==
  LET m == NextImplementation(t, from)
  IN IF ~m.found THEN <<>> ELSE <<m>> \o C3_Realizations(t, m.end)

\* the declared interfaces the lines give to A, in text order
C3_InterfacesOf(A) ==
  LET all == C3_Realizations(text, 1)
      mine == SelectSeq(all, LAMBDA m : m.left = A /\ m.right \in Declared)
  IN [i \in 1..Len(mine) |-> mine[i].right]

\* q without repetitions, each element at its first place
RECURSIVE C3_Distinct(_)
C3_Distinct(q) ==
  IF q = <<>> THEN <<>>
  ELSE LET r == C3_Distinct(SubSeq(q, 1, Len(q) - 1))
       IN IF \E i \in 1..Len(r) : r[i] = q[Len(q)] THEN r ELSE Append(r, q[Len(q)])

\* C3: the implements clause of a declared A lists the distinct declared
\* interfaces of its lines "A ..|> B", each once, comma-joined, in the order of
\* their first appearance.
C3_ImplementsListsEachInterfaceOnce ==
  pc = "done" =>
    \A A \in Declared :
      C3_InterfacesOf(A) # <<>> =>
        EndsWith(HeaderLine(files[A]),
                 Str(" implements ") \o Join(C3_Distinct(C3_InterfacesOf(A)), Str(", "))
                 \o Str(" {"))

(***************************************************************************)
(* C4                                                                      *)
(***************************************************************************)
\* C4: in the file of a class or abstract class every private attribute has a
\* getter and a setter named get<X> and set<X>, X being the attribute name with
\* only its first character upper-cased; other attributes have none.
C4_AccessorsCapitalizeFirstCharOnly ==
  pc = "done" =>
    \A N \in Declared :
      LET d == Get(parsed_elements, N)
      IN d.type # "interface" =>
           \A i \in 1..Len(d.attributes) :
             LET a == d.attributes[i]
                 getter == Str("    public ") \o a.type \o Str(" get") \o UpperFirst(a.name)
                           \o Str("() {\n")
                 setter == Str("    public void set") \o UpperFirst(a.name) \o Str("(")
                           \o a.type \o Str(" ") \o a.name \o Str(") {\n")
             IN IF a.visibility = "private"
                THEN Contains(files[N], getter) /\ Contains(files[N], setter)
                ELSE ~Contains(files[N], getter) /\ ~Contains(files[N], setter)

(***************************************************************************)
(* C5                                                                      *)
(***************************************************************************)
\* C5: the file of an interface holds no field line and no constructor: besides
\* the header, blank lines and the closing brace, every line is a method signature
\* ending in ");".
C5_InterfaceHasOnlyMethodSignatures ==
  pc = "done" =>
    \A N \in Declared :
      Get(parsed_elements, N).type = "interface" =>
        \A i \in 1..Len(FileLines(files[N])) :
          LET line == FileLines(files[N])[i]
          IN /\ ~StartsAt(line, 1, Str("    public ") \o N \o Str("("))
             /\ \/ line \in {<<>>, Str("}")}
                \/ i \in HeaderLines(files[N])
                \/ StartsAt(line, 1, Str("import "))
                \/ StartsAt(line, 1, Str("    ")) /\ EndsWith(line, Str(");"))

(***************************************************************************)
(* C6                                                                      *)
(***************************************************************************)
\* C6: the header of an interface's file never has an implements clause.
C6_InterfaceHeaderHasNoImplements ==
  pc = "done" =>
    \A N \in Declared :
      Get(parsed_elements, N).type = "interface" =>
        ~Contains(HeaderLine(files[N]), Str(" implements "))

(***************************************************************************)
(* C7                                                                      *)
(***************************************************************************)
\* the parent whose attributes the constructor of N takes: a declared class or
\* abstract class N has an extends edge to
C7_HasQualifyingParent(N) ==
  /\ N \in DOMAIN relationships.extends
  /\ relationships.extends[N] \in Declared
  /\ Get(parsed_elements, relationships.extends[N]).type # "interface"

C7_ParentAttributes(N) ==
  IF C7_HasQualifyingParent(N)
  THEN Get(parsed_elements, relationships.extends[N]).attributes
  ELSE <<>>

\* the constructor the claim describes, from its signature to its closing brace
C7_ExpectedConstructor(N) ==
  LET own == Get(parsed_elements, N).attributes
      inherited == C7_ParentAttributes(N)
      all == inherited \o own
  IN Str("    public ") \o N \o Str("(")
     \o Join([i \in 1..Len(all) |-> all[i].type \o Str(" ") \o all[i].name], Str(", "))
     \o Str(") {\n")
     \o (IF inherited # <<>>
         THEN Str("        super(")
              \o Join([i \in 1..Len(inherited) |-> inherited[i].name], Str(", "))
              \o Str(");\n")
         ELSE <<>>)
     \o Join([i \in 1..Len(own) |-> Str("        this.") \o own[i].name \o Str(" = ") \o own[i].name
                                     \o Str(";\n")], <<>>)
     \o Str("    }\n")

\* C7: when the run is over, also when an exception has ended it, every written
\* file of a class or abstract class has one constructor; its parameters
\* are the attributes of the parent the type extends (when that parent is a
\* declared class or abstract class), in order, followed by the type's own; a
\* parent with attributes gives a super(...) call as the first statement, before
\* the assignments of the own attributes; attributes of a grandparent are not used.
C7_ConstructorTakesParentThenOwn ==
  Over =>
    \A N \in DOMAIN files :
      Get(parsed_elements, N).type # "interface" =>
        /\ Contains(files[N], Str("\n") \o C7_ExpectedConstructor(N))
        /\ Cardinality({i \in 1..Len(files[N]) :
                          StartsAt(files[N], i, Str("\n    public ") \o N \o Str("("))}) = 1

\* G extends P and P extends S: the constructor of G takes the attribute of P and
\* not those of S
C7_Witness ==
  /\ pc = "done"
  /\ DOMAIN relationships.extends = {Str("G"), Str("P")}
  /\ relationships.extends[Str("G")] = Str("P")
  /\ relationships.extends[Str("P")] = Str("S")
  /\ Len(Get(parsed_elements, Str("S")).attributes) = 2
  /\ Contains(files[Str("G")], Str("    public G(T n) {\n        super(n);\n    }\n"))
  /\ Contains(files[Str("P")], Str("    public P(T aB, Object k, T n) {\n        super(aB, k);\n")
                          \o Str("        this.n = n;\n    }\n"))

(***************************************************************************)
(* C8                                                                      *)
(***************************************************************************)
\* the diagram lines written "+ {abstract} <member>"
C8_MarkedLines ==
  {i \in 1..Len(Split(text, Newline)) :
     StartsAt(Strip(Split(text, Newline)[i]), 1, Str("+ {abstract} "))}

\* the abstract signature the claim gives the marked line l
C8_AbstractSignature(l) ==
  LET m == MemberPatternMatch(Str("+ ") \o SubSeq(Strip(l), 14, Len(Strip(l))))
  IN Str("    public abstract ")
     \o (IF m.return_type # <<>> THEN m.return_type ELSE Str("void")) \o Str(" ")
     \o m.member_name \o Str("(") \o JavaParams(m.params_str) \o Str(");")

\* C8: in the file of an abstract class (diagrams with one declaration, so that
\* every line belongs to it) each line "+ {abstract} m(...)" gives the body-less
\* signature "public abstract ... m(...);", and every public method parsed from a
\* line without the marker is written with a body.
C8_AbstractIffMarked ==
  pc = "done" /\ Len(parsed_elements) = 1 /\ parsed_elements[1].type = "abstract_class" =>
    LET d == parsed_elements[1]
    IN /\ \A i \in C8_MarkedLines :
            \E j \in 1..Len(FileLines(files[d.name])) :
              FileLines(files[d.name])[j] = C8_AbstractSignature(Split(text, Newline)[i])
       /\ \A i \in 1..Len(d.methods) :
            d.methods[i].visibility = "public" =>
              Contains(files[d.name],
                       Str("    public ") \o d.methods[i].return_type \o Str(" ")
                       \o d.methods[i].name
                       \o Str("(") \o d.methods[i].parameters \o Str(") {\n"))

(***************************************************************************)
(* C9                                                                      *)
(***************************************************************************)
\* a body line as the claim reads it: a line without a visibility marker, or with
\* an unrecognized one, counts as the same line with "+"
C9_WithDefaultMarker(line) ==
  LET s == Strip(line)
  IN IF s = <<>> \/ Ch(s, 1) \in VisibilityChars THEN s
     ELSE IF Ch(s, 1) \in WordChars THEN Str("+ ") \o s
     ELSE Str("+") \o SubSeq(s, 2, Len(s))

\* C9: after Pass 2 the attributes and methods of every declaration are those of
\* its body lines with a missing or unrecognized visibility marker read as "+"
\* (public), the markers + - # ~ giving public, private, protected, package-private.
C9_MissingMarkerMeansPublic ==
  pc = "extends" =>
    \A i \in 1..Len(parsed_elements) :
      LET d == parsed_elements[i]
          lines == Split(d.body, Newline)
          read == ParseLines([d EXCEPT !.attributes = <<>>, !.methods = <<>>],
                             [j \in 1..Len(lines) |-> C9_WithDefaultMarker(lines[j])])
      IN d.attributes = read.attributes /\ d.methods = read.methods

(***************************************************************************)
(* C10                                                                     *)
(***************************************************************************)
\* every name in the relationship tables is a declared name
C10_Closed(rel, elements) ==
  /\ \A c \in DOMAIN rel.extends : c \in Keys(elements) /\ rel.extends[c] \in Keys(elements)
  /\ \A c \in DOMAIN rel.implements :
       /\ c \in Keys(elements)
       /\ \A i \in 1..Len(rel.implements[c]) : rel.implements[c][i] \in Keys(elements)

\* C10: every step of the relationship scan leaves the declaration table as it
\* is and leaves every name of the extends and implements tables declared; a
\* generalization line with an undeclared endpoint changes nothing, and one with
\* both endpoints declared makes its right-hand name the single extends entry of
\* its left-hand name, replacing an earlier one.
C10_RelationshipsNameDeclaredTypes ==
  [][/\ C10_Closed(relationships', parsed_elements')
     /\ pc \in {"extends", "implements"} => parsed_elements' = parsed_elements
     /\ pc = "extends" /\ pc' = "extends" =>
          LET m == NextInheritance(text, pos)
          IN IF m.left \in Declared /\ m.right \in Declared
             THEN /\ relationships'.extends[m.left] = m.right
                  /\ \A c \in DOMAIN relationships.extends \ {m.left} :
                       relationships'.extends[c] = relationships.extends[c]
                  /\ relationships'.implements = relationships.implements
             ELSE relationships' = relationships
     /\ pc = "implements" /\ pc' = "implements" =>
          LET m == NextImplementation(text, pos)
          IN m.left \notin Declared \/ m.right \notin Declared =>
               relationships' = relationships]_vars

\* two generalization lines for S, the first with an undeclared right-hand name:
\* only the second is recorded
C10_Witness ==
  /\ pc = "done"
  /\ Contains(text, Str("S <|-- G\nS <|-- I\n"))
  /\ Str("G") \notin Declared
  /\ DOMAIN relationships.extends = {Str("S")}
  /\ relationships.extends[Str("S")] = Str("I")

====
